---- MODULE Spec2Model ----
(***************************************************************************)
(* Picovation: a Raspberry Pi Pico acting as USB MIDI host for a Novation  *)
(* Circuit groovebox, driven by five foot switches.                        *)
(*                                                                         *)
(* The repository holds several revisions of picovation.c.  The model      *)
(* follows the latest one (src/unnamed/part_000): edge-triggered pedal     *)
(* polling (struct pedalboard), a 30 x 1 ms anti-bounce loop that runs the *)
(* tick check, the pedal dispatch of main(), the tap-tempo engine, the     *)
(* per-pass flush of midi_tx and the TinyUSB callbacks.                    *)
(*                                                                         *)
(* Reading of part_000 where it does not compile as written:               *)
(*   - `pedal->change_state`, `pedal->value`, `pedal & NEXT` are read as   *)
(*     the fields of the struct pedalboard filled by test_switch;          *)
(*   - line 356 lacks the opening brace of `if (pedal->change_time >=      *)
(*     EXIT_FUNCTION)`; the closing brace of line 362, the indentation and *)
(*     the earlier revision (src/picovation.c:807-813) put both            *)
(*     assignments (lines 358 and 361) under that test.                    *)
(*                                                                         *)
(* Time is the microsecond counter to_us_since_boot().  Instructions take  *)
(* no time; sleep_ms(1) takes SliceUs; the time that passes between two    *)
(* passes of the main loop is an input of UsbTask.                         *)
(*                                                                         *)
(* The revision before it (the second file of src/picovation.c, lines      *)
(* 472-957) polls levels instead of edges and waits for the release of the *)
(* pedals inside the main loop; its main loop is modelled by the actions   *)
(* whose names end in B and by SpecB.                                      *)
(* The first revision (the first file of src/picovation.c, lines 1-471)    *)
(* sends every byte at once, sleeps 30 ms in test_switch and keeps the     *)
(* clock deadline in a local of main() that has no initialiser; it is      *)
(* modelled by the actions whose names end in A and by SpecA.              *)
(***************************************************************************)
EXTENDS Integers, Sequences, FiniteSets, TLC

(***************************************************************************)
(* Program constants                                                       *)
(***************************************************************************)
MIDI_CLOCK == 248
MIDI_PLAY == 250
MIDI_STOP == 252
MIDI_CONTINUE == 251
MIDI_PRG_CHANGE == 207

PREV == 1
NEXT == 2
PLAY == 4
CONTINUE == 8
TEMPO == 16

EXIT_FUNCTION == 2000000
NB_TICKS == 24
BPM40_TICKS == 62500
BPM240_TICKS == 10417

\* 0xffffffffffffffff.  A uint64_t is held as its two's-complement reading,
\* so the all-ones value is -1, addition and subtraction modulo 2^64 are the
\* integer ones, and only the unsigned comparison needs care (ULt).
UINT64_MAX == -1
\* static int64_t time_interval_between_ticks = 21000
INITIAL_INTERVAL == 21000
\* for (i = 0; i < 30; i++)
BOUNCE_SLICES == 30
\* sleep_ms (1), in microseconds
SliceUs == 1000
\* song = (song == 31) ? 0 : song + 1
LAST_SONG == 31
\* src/picovation.c:50 and :72, the first revision of that file
MIDI_PAUSE == 251
PAUSE == 8
\* sleep_ms (30) of the first revision's test_switch, in microseconds
BOUNCE_US == 30000
\* #define MIDI_BUF_SIZE 5000
MIDI_BUF_SIZE == 5000

(***************************************************************************)
(* Bounds of the model                                                     *)
(***************************************************************************)
\* the timer stops the model at MaxTime microseconds since boot
MaxTime == 4100000
\* number of anti-bounce windows (pedal edges) in a transport run
MaxWindows == 3
\* number of anti-bounce windows (pedal edges) in a tap-tempo run
MaxTempoWindows == 3
\* number of anti-bounce windows in a run of the earlier revision
MaxBWindows == 4
\* number of anti-bounce waits in a run of the first revision
MaxAWindows == 3
\* number of anti-bounce windows in a run with arbitrary inbound bytes
MaxRxWindows == 1
\* number of anti-bounce windows in a run with the tap pedal and Play
MaxMixedWindows == 4
\* number of anti-bounce windows in a run that resumes the clock after an
\* auto-disable
MaxResumeWindows == 4
\* the time at which the timer stops in a run that keeps the tap pedal down
MaxHoldTime == 56000000
\* number of main-loop passes of a run that begin after a pause (d > 0)
MaxJumps == 2
\* number of cells of midi_rx the model keeps (inbound buffers are shorter)
RxCells == 5

(***************************************************************************)
(* Inputs                                                                  *)
(***************************************************************************)
\* pressed masks the switch bank can report in the transport runs
Masks == {0, PREV, NEXT, PLAY, CONTINUE, NEXT + PREV, PLAY + CONTINUE}
\* pressed masks of the tap-tempo runs
TempoMasks == {0, TEMPO, TEMPO + PLAY}
\* time that passes between two passes of the main loop (tap-tempo runs);
\* two anti-bounce windows (60000 us) separate the dispatches of two taps,
\* so 190007/190008 straddle 24 * BPM240_TICKS, 1440023/1440024 straddle
\* 24 * BPM40_TICKS + 23, and 1969999/1970000 straddle EXIT_FUNCTION.
TempoDts == {0, 190007, 190008, 1440023, 1440024, 1969999, 1970000}
\* pressed masks of the runs with short stream writes, and the numbers of
\* bytes a stream write may leave unwritten
ShortMasks == {0, NEXT, PLAY}
ShortCounts == {0, 1, 2}
\* pressed masks and pauses of the runs with an absent or unconfigured device
OfflineMasks == {0, NEXT, PLAY, TEMPO}
OfflineDts == {0, 190008}
\* pressed masks and pauses of the runs of the earlier revision
BMasks == {0, PLAY, TEMPO}
BDts == {0, 190008, 1440023}
\* inbound buffers of the runs of the earlier revision: Start, Stop
BRxBuffers == {<<250>>, <<252>>}
\* runs with the tap pedal and Play: pedal masks, and pauses that make a
\* first tap accepted (dispatch at 250008 us) and a hold of 2 s
MixedMasks == {0, PLAY, TEMPO}
MixedDts == {0, 220008, 1970000}
\* runs that resume the clock after an auto-disable: pedal masks, a pause
\* that makes a hold last 2 s and one that puts two dispatches 250008 us
\* apart
ResumeMasks == {0, TEMPO, TEMPO + PLAY}
ResumeDts == {0, 220008, 1970000}
\* the pause before the pass that finds the tap pedal down in a run that
\* keeps it down
HoldDts == {220008}
\* turns of a wait-for-release loop taken in one step of such a run
HoldTurns == {1, 8}
\* anti-bounce windows that fit in such a run
MaxHoldWindows == MaxHoldTime \div (BOUNCE_SLICES * SliceUs)
\* pressed masks and pauses of the runs of the first revision
AMasks == {0, PLAY, PAUSE, TEMPO}
ADts == {0, 190008}
\* inbound buffers delivered by tuh_midi_stream_read
RxBuffers == {<<250>>, <<251>>, <<252>>, <<207, 5>>, <<207, 40>>}
\* cables tuh_midi_stream_read reports a buffer on, and packet counts the
\* stack passes to tuh_midi_rx_cb
Cables == {0, 1}
PacketCounts == {0, 1}
\* bytes of the arbitrary inbound buffers: data bytes around the last song,
\* a Note On status, Program Change, Start, Continue, Stop
RxBytes == {0, 31, 32, 144, 207, 250, 251, 252}
\* every inbound buffer of one or two of these bytes
ArbBuffers == [1..1 -> RxBytes] \cup [1..2 -> RxBytes]
\* bytes of the buffers of the scan runs: a data byte, a Note On status,
\* Program Change, Start
ScanBytes == {31, 144, 207, 250}
\* every inbound buffer of one to four of these bytes
ScanBuffers == UNION {[1..n -> ScanBytes] : n \in 1..4}
\* inbound Program Changes for every song, and one past the last song
SongBuffers == {<<207, v>> : v \in 0..32}

(***************************************************************************)
(* State                                                                   *)
(***************************************************************************)
VARIABLES
    now,                            \* to_us_since_boot (get_absolute_time())
    pc,                             \* position in the main loop
    song, midi_dev_addr, connected, play, pause,
    time_interval_between_ticks,
    new_time_interval_between_ticks,
    time_to_send_next_clock,
    time_of_last_clock,
    midi_rx,                        \* first RxCells cells of midi_rx
    bytes_read,                     \* tuh_midi_rx_cb: count the last stream read returned
    cable_num,                      \* tuh_midi_rx_cb: cable the last stream read reported
    midi_tx,                        \* midi_tx [0 .. index_tx - 1]
    result, previous_result,        \* test_switch: result, static previous_result
    sw_this_press, sw_previous_press,   \* test_switch: static this_press, previous_press
    i,                              \* test_switch: index of the anti-bounce loop
    pedal,                          \* main: struct pedalboard pedal
    this_press, previous_press,     \* main: tap times
    press_on,                       \* main (src/picovation.c): time the tap pedal went down
    site,                           \* (src/picovation.c) the call of test_switch in progress
    stream,                         \* bytes handed to tuh_midi_stream_write in this pass
    windows,                        \* anti-bounce windows entered so far
    jumps,                          \* passes begun after a pause so far
    \* history, read by the properties only
    taps,                           \* times of the last two TempoTap events
    tempo_down,                     \* poll time at which the tap pedal went down
    slices                          \* anti-bounce slices since tuh_task() returned

vars == <<now, pc, song, midi_dev_addr, connected, play, pause,
          time_interval_between_ticks, new_time_interval_between_ticks,
          time_to_send_next_clock, time_of_last_clock, midi_rx, bytes_read, cable_num, midi_tx,
          result, previous_result, sw_this_press, sw_previous_press, i,
          pedal, this_press, previous_press, stream, windows, jumps,
          taps, tempo_down, slices, press_on, site>>

index_tx == Len(midi_tx)

\* "no such time" in the history variables
NoTime == 0 - 1

(***************************************************************************)
(* uint64_t arithmetic on two's-complement readings                        *)
(***************************************************************************)
\* a < b on uint64_t
ULt(a, b) == IF (a < 0) = (b < 0) THEN a < b ELSE b < 0
\* a + b, a - b modulo 2^64
UAdd(a, b) == a + b
USub(a, b) == a - b
\* a / d on uint64_t; every dividend of the program is a difference of two
\* timer readings, which is below 2^63
UDiv(a, d) == a \div d

\* v & bit # 0, for a one-bit mask
Has(v, bit) == (v \div bit) % 2 = 1


(***************************************************************************)
(* send_clock and the caller's deadline update                             *)
(***************************************************************************)
\* send_clock (when_to_send): true when `time < when_to_send` fails
ClockDue(time, when_to_send) == ~ULt(time, when_to_send)

\* if (send_clock (time_to_send_next_clock))
\*     time_to_send_next_clock = time_of_last_clock + time_interval_between_ticks;
\* on a record with the fields tx (midi_tx), last (time_of_last_clock),
\* deadline (time_to_send_next_clock) and interval
\* variant: the caller forgets the deadline update
TickCheck_NoAdvance(st, time) ==
    IF ClockDue(time, st.deadline)
    THEN [st EXCEPT !.tx = Append(@, MIDI_CLOCK), !.last = time]
    ELSE st

\* variant: the next deadline is counted from the old deadline, not from the
\* time the Clock byte was queued
TickCheck_FromDeadline(st, time) ==
    IF ClockDue(time, st.deadline)
    THEN [st EXCEPT !.tx = Append(@, MIDI_CLOCK),
                    !.last = time,
                    !.deadline = UAdd(st.deadline, st.interval)]
    ELSE st

TickCheck(st, time) ==
    IF ClockDue(time, st.deadline)
    THEN [st EXCEPT !.tx = Append(@, MIDI_CLOCK),
                    !.last = time,
                    !.deadline = UAdd(time, st.interval)]
    ELSE st

(***************************************************************************)
(* The pedal dispatch of main(), branch by branch, on a record of the      *)
(* variables it touches                                                    *)
(***************************************************************************)
\* variant: no test of the upper boundary
NextSong_NoWrap(s) == s + 1

NextSong(s) == IF s = LAST_SONG THEN 0 ELSE s + 1

\* variant: no test of the lower boundary
PrevSong_NoWrap(s) == s - 1

PrevSong(s) == IF s = 0 THEN LAST_SONG ELSE s - 1

\* if (pedal->value & (NEXT | PREV)) { ... }
NavBranch(st, value) ==
    IF Has(value, NEXT) \/ Has(value, PREV)
    THEN LET s1 == IF Has(value, NEXT) THEN NextSong(st.song) ELSE st.song
             s2 == IF Has(value, PREV) THEN PrevSong(s1) ELSE s1
         IN [st EXCEPT !.song = s2,
                       !.tx = @ \o <<MIDI_PRG_CHANGE, s2, MIDI_STOP>>
                                \o (IF st.play \/ st.pause THEN <<MIDI_PLAY>> ELSE <<>>)]
    ELSE st

\* variant: the stop branch tests and clears play only
PlayBranch_PlayOnly(st, value) ==
    IF Has(value, PLAY)
    THEN IF st.play
         THEN [st EXCEPT !.tx = Append(@, MIDI_STOP), !.play = FALSE]
         ELSE [st EXCEPT !.tx = Append(@, MIDI_PLAY), !.play = TRUE]
    ELSE st

\* if (pedal->value & PLAY) { ... }
PlayBranch(st, value) ==
    IF Has(value, PLAY)
    THEN IF st.play \/ st.pause
         THEN [st EXCEPT !.tx = Append(@, MIDI_STOP), !.play = FALSE, !.pause = FALSE]
         ELSE [st EXCEPT !.tx = Append(@, MIDI_PLAY), !.play = TRUE]
    ELSE st

\* if (pedal->value & CONTINUE) { ... }
ContinueBranch(st, value) ==
    IF Has(value, CONTINUE)
    THEN IF st.play \/ st.pause
         THEN [st EXCEPT !.tx = Append(@, MIDI_STOP), !.play = FALSE, !.pause = FALSE]
         ELSE [st EXCEPT !.tx = Append(@, MIDI_CONTINUE), !.pause = TRUE]
    ELSE st

\* variant: strict comparisons
InWindow_Strict(q) == q < BPM40_TICKS /\ q > BPM240_TICKS

\* (new_time_interval_between_ticks <= BPM40_TICKS) &&
\* (new_time_interval_between_ticks >= BPM240_TICKS), on int64_t
InWindow(q) == q <= BPM40_TICKS /\ q >= BPM240_TICKS

\* variant: the new deadline is counted from the previous press
TempoBranch_DeadlineFromPrevious(st, value, time) ==
    IF Has(value, TEMPO)
    THEN LET q == UDiv(USub(time, st.previous_press), NB_TICKS)
             a == [st EXCEPT !.this_press = time, !.newint = q]
             b == IF InWindow(q)
                  THEN TickCheck(
                         [a EXCEPT !.interval = q,
                                   !.tx = Append(@, MIDI_STOP)
                                          \o (IF st.play \/ st.pause
                                              THEN <<MIDI_CONTINUE>> ELSE <<>>),
                                   !.deadline = UAdd(st.previous_press, q)],
                         time)
                  ELSE a
         IN [b EXCEPT !.previous_press = time]
    ELSE st

\* variant: Stop is queued only together with Continue
TempoBranch_StopOnlyWhenPlaying(st, value, time) ==
    IF Has(value, TEMPO)
    THEN LET q == UDiv(USub(time, st.previous_press), NB_TICKS)
             a == [st EXCEPT !.this_press = time, !.newint = q]
             b == IF InWindow(q)
                  THEN TickCheck(
                         [a EXCEPT !.interval = q,
                                   !.tx = @ \o (IF st.play \/ st.pause
                                                THEN <<MIDI_STOP, MIDI_CONTINUE>>
                                                ELSE <<>>),
                                   !.deadline = UAdd(time, q)],
                         time)
                  ELSE a
         IN [b EXCEPT !.previous_press = time]
    ELSE st

\* variant: a press outside the boundaries switches the clock off
TempoBranch_RejectStops(st, value, time) ==
    IF Has(value, TEMPO)
    THEN LET q == UDiv(USub(time, st.previous_press), NB_TICKS)
             a == [st EXCEPT !.this_press = time, !.newint = q]
             b == IF InWindow(q)
                  THEN TickCheck(
                         [a EXCEPT !.interval = q,
                                   !.tx = Append(@, MIDI_STOP)
                                          \o (IF st.play \/ st.pause
                                              THEN <<MIDI_CONTINUE>> ELSE <<>>),
                                   !.deadline = UAdd(time, q)],
                         time)
                  ELSE [a EXCEPT !.deadline = UINT64_MAX]
         IN [b EXCEPT !.previous_press = time]
    ELSE st

\* variant: every press is validated, without the test of the boundaries
TempoBranch_AlwaysAccept(st, value, time) ==
    IF Has(value, TEMPO)
    THEN LET q == UDiv(USub(time, st.previous_press), NB_TICKS)
             a == [st EXCEPT !.this_press = time, !.newint = q]
             b == TickCheck(
                         [a EXCEPT !.interval = q,
                                   !.tx = Append(@, MIDI_STOP)
                                          \o (IF st.play \/ st.pause
                                              THEN <<MIDI_CONTINUE>> ELSE <<>>),
                                   !.deadline = UAdd(time, q)],
                         time)
         IN [b EXCEPT !.previous_press = time]
    ELSE st

\* if (pedal->value & TEMPO) { ... }; time is the timer reading of line 325
TempoBranch(st, value, time) ==
    IF Has(value, TEMPO)
    THEN LET q == UDiv(USub(time, st.previous_press), NB_TICKS)
             a == [st EXCEPT !.this_press = time, !.newint = q]
             b == IF InWindow(q)
                  THEN TickCheck(
                         [a EXCEPT !.interval = q,
                                   !.tx = Append(@, MIDI_STOP)
                                          \o (IF st.play \/ st.pause
                                              THEN <<MIDI_CONTINUE>> ELSE <<>>),
                                   !.deadline = UAdd(time, q)],
                         time)
                  ELSE a
         IN [b EXCEPT !.previous_press = time]
    ELSE st

\* if (pedal->value == 0) { if (pedal->change_time >= EXIT_FUNCTION) { ... } }
ReleaseBranch(st, value, change_time) ==
    IF value = 0 /\ ~ULt(change_time, EXIT_FUNCTION)
    THEN [st EXCEPT !.deadline = UINT64_MAX, !.previous_press = 0]
    ELSE st

\* variant: the Pause branch runs before the Play branch
DispatchEdge_PauseFirst(st, value, change_time, time) ==
    ReleaseBranch(
        TempoBranch(
            PlayBranch(ContinueBranch(NavBranch(st, value), value), value),
            value, time),
        value, change_time)

\* the body of `if (pedal->change_state) { ... }`
DispatchEdge(st, value, change_time, time) ==
    ReleaseBranch(
        TempoBranch(
            ContinueBranch(PlayBranch(NavBranch(st, value), value), value),
            value, time),
        value, change_time)

(***************************************************************************)
(* tuh_midi_rx_cb: the scan of one inbound buffer                          *)
(***************************************************************************)
\* the second switch: how far the index moves on status byte b
\* variant: the index advances by one whatever the byte
RxAdvance_ByOne(b) == 1

RxAdvance(b) ==
    LET hi == b \div 16
    IN IF hi \in {8, 9, 10, 11, 14} THEN 3
       ELSE IF hi \in {12, 13} THEN 2
       ELSE 1

\* variant: Stop clears play only
RxInterpret_StopKeepsPause(st, buffer, idx) ==
    LET b == buffer[idx + 1]
    IN IF b = MIDI_CONTINUE THEN [st EXCEPT !.pause = TRUE]
       ELSE IF b = MIDI_PLAY THEN [st EXCEPT !.play = TRUE]
       ELSE IF b = MIDI_STOP THEN [st EXCEPT !.play = FALSE]
       ELSE IF b = MIDI_PRG_CHANGE
            THEN IF buffer[idx + 2] <= LAST_SONG
                 THEN [st EXCEPT !.song = buffer[idx + 2]]
                 ELSE st
       ELSE st

\* variant: the song number is taken without the test of its range
RxInterpret_NoRange(st, buffer, idx) ==
    LET b == buffer[idx + 1]
    IN IF b = MIDI_CONTINUE THEN [st EXCEPT !.pause = TRUE]
       ELSE IF b = MIDI_PLAY THEN [st EXCEPT !.play = TRUE]
       ELSE IF b = MIDI_STOP THEN [st EXCEPT !.play = FALSE, !.pause = FALSE]
       ELSE IF b = MIDI_PRG_CHANGE THEN [st EXCEPT !.song = buffer[idx + 2]]
       ELSE st

\* variant: a Program Change on any channel selects the song
RxInterpret_AnyChannel(st, buffer, idx) ==
    LET b == buffer[idx + 1]
    IN IF b = MIDI_CONTINUE THEN [st EXCEPT !.pause = TRUE]
       ELSE IF b = MIDI_PLAY THEN [st EXCEPT !.play = TRUE]
       ELSE IF b = MIDI_STOP THEN [st EXCEPT !.play = FALSE, !.pause = FALSE]
       ELSE IF b \div 16 = MIDI_PRG_CHANGE \div 16
            THEN IF buffer[idx + 2] <= LAST_SONG
                 THEN [st EXCEPT !.song = buffer[idx + 2]]
                 ELSE st
       ELSE st

\* the first switch, on buffer [idx] (idx counts from 0; buffer is the whole
\* midi_rx array, so buffer [idx+1] may lie past bytes_read)
RxInterpret(st, buffer, idx) ==
    LET b == buffer[idx + 1]
    IN IF b = MIDI_CONTINUE THEN [st EXCEPT !.pause = TRUE]
       ELSE IF b = MIDI_PLAY THEN [st EXCEPT !.play = TRUE]
       ELSE IF b = MIDI_STOP THEN [st EXCEPT !.play = FALSE, !.pause = FALSE]
       ELSE IF b = MIDI_PRG_CHANGE
            THEN IF buffer[idx + 2] <= LAST_SONG
                 THEN [st EXCEPT !.song = buffer[idx + 2]]
                 ELSE st
       ELSE st

\* while (i < bytes_read) { ... }
RECURSIVE RxScan(_, _, _, _)
RxScan(st, buffer, nread, idx) ==
    IF idx < nread
    THEN RxScan(RxInterpret(st, buffer, idx), buffer, nread,
                idx + RxAdvance(buffer[idx + 1]))
    ELSE st

\* tuh_midi_stream_read (dev_addr, &cable_num, buffer, MIDI_BUF_SIZE):
\* the bytes read overwrite the head of midi_rx, the rest keeps its content
RxFill(rx, buf) ==
    [k \in 1..Len(rx) |-> IF k <= Len(buf) THEN buf[k] ELSE rx[k]]


(***************************************************************************)
(* Initial state: the statics as initialised, main() before its loop       *)
(***************************************************************************)
Init ==
    /\ now = 0
    /\ pc = "task"
    /\ song = 0
    /\ midi_dev_addr = 0
    /\ connected = FALSE
    /\ play = FALSE
    /\ pause = FALSE
    /\ time_interval_between_ticks = INITIAL_INTERVAL
    /\ new_time_interval_between_ticks = INITIAL_INTERVAL
    /\ time_to_send_next_clock = UINT64_MAX
    /\ time_of_last_clock = 0
    /\ midi_rx = [k \in 1..RxCells |-> 0]
    /\ bytes_read = 0
    /\ cable_num = 0
    /\ midi_tx = <<>>
    /\ result = 0
    /\ previous_result = 0
    /\ sw_this_press = 0
    /\ sw_previous_press = 0
    /\ i = 0
    \* every field is written by test_switch before main reads it
    /\ pedal = [value |-> 0, change_state |-> FALSE, change_time |-> 0]
    /\ this_press = 0
    /\ previous_press = 0
    /\ press_on = 0
    /\ site = "main"
    /\ stream = <<>>
    /\ windows = 0
    /\ jumps = 0
    /\ taps = <<NoTime, NoTime>>
    /\ tempo_down = NoTime
    /\ slices = 0

transportVars == <<song, play, pause>>
tempoVars == <<time_interval_between_ticks, new_time_interval_between_ticks,
               time_to_send_next_clock, time_of_last_clock>>
switchVars == <<result, previous_result, sw_this_press, sw_previous_press, i,
                pedal, windows>>
tapVars == <<this_press, previous_press, press_on, site>>
usbVars == <<midi_dev_addr, connected, midi_rx, bytes_read, cable_num>>

(***************************************************************************)
(* main loop, lines 267-269: tuh_task() returns and connected is refreshed.*)
(* d is the time since the previous pass, configured the answer of         *)
(* tuh_midi_configured.                                                    *)
(***************************************************************************)
UsbTask(d, configured) ==
    /\ pc = "task"
    /\ now + d <= MaxTime
    /\ now' = now + d
    /\ jumps' = IF d > 0 THEN jumps + 1 ELSE jumps
    /\ jumps' <= MaxJumps
    /\ slices' = 0
    /\ connected' = (midi_dev_addr # 0 /\ configured)
    /\ stream' = <<>>
    /\ pc' = "poll"
    /\ UNCHANGED <<transportVars, tempoVars, switchVars, tapVars,
                   midi_dev_addr, midi_rx, bytes_read, cable_num, midi_tx, taps, tempo_down>>

\* variant: a change is reported whenever a pedal is down, as in the earlier
\* revisions
Changed_Level(res, prev) == res # 0

\* if (result != previous_result)
Changed(res, prev) == res # prev

(***************************************************************************)
(* test_switch, lines 160-207: m is the pressed mask the gpio lines show,  *)
(* max_windows the number of anti-bounce windows the run allows            *)
(***************************************************************************)
TestSwitch(m, max_windows) ==
    /\ pc = "poll"
    /\ sw_this_press' = now
    /\ result' = m
    /\ IF Changed(m, previous_result)
       THEN /\ windows < max_windows
            /\ windows' = windows + 1
            /\ pedal' = [pedal EXCEPT !.change_state = TRUE,
                                      !.change_time = USub(now, sw_previous_press)]
            /\ sw_previous_press' = now
            /\ i' = 0
            /\ pc' = "bounce"
            /\ UNCHANGED previous_result
       ELSE /\ pedal' = [value |-> m, change_state |-> FALSE,
                         change_time |-> USub(now, sw_previous_press)]
            /\ previous_result' = m
            /\ pc' = "dispatch"
            /\ UNCHANGED <<windows, sw_previous_press, i>>
    /\ tempo_down' = IF Has(m, TEMPO) /\ ~Has(previous_result, TEMPO)
                      THEN now ELSE tempo_down
    /\ UNCHANGED <<now, transportVars, tempoVars, tapVars, usbVars, midi_tx,
                   stream, jumps, taps, slices>>

\* for (i = 0; i < 30; i++)
BounceMore(k) == k < BOUNCE_SLICES

\* variant: the anti-bounce loop only sleeps
BounceSlice_SleepOnly ==
    /\ pc = "bounce"
    /\ BounceMore(i)
    /\ now + SliceUs <= MaxTime
    /\ now' = now + SliceUs
    /\ i' = i + 1
    /\ slices' = slices + 1
    /\ UNCHANGED <<pc, transportVars, tempoVars, midi_tx, result, previous_result,
                   sw_this_press, sw_previous_press, pedal, windows, tapVars,
                   usbVars, stream, jumps, taps, tempo_down>>

(***************************************************************************)
(* test_switch, lines 209-214: one turn of the anti-bounce loop            *)
(***************************************************************************)
BounceSlice ==
    /\ pc = "bounce"
    /\ BounceMore(i)
    /\ now + SliceUs <= MaxTime
    /\ now' = now + SliceUs
    /\ LET st == TickCheck([tx |-> midi_tx, last |-> time_of_last_clock,
                            deadline |-> time_to_send_next_clock,
                            interval |-> time_interval_between_ticks], now')
       IN /\ midi_tx' = st.tx
          /\ time_of_last_clock' = st.last
          /\ time_to_send_next_clock' = st.deadline
    /\ i' = i + 1
    /\ slices' = slices + 1
    /\ UNCHANGED <<pc, transportVars, time_interval_between_ticks,
                   new_time_interval_between_ticks, result, previous_result,
                   sw_this_press, sw_previous_press, pedal, windows, tapVars,
                   usbVars, stream, jumps, taps, tempo_down>>

(***************************************************************************)
(* test_switch, lines 217-220, after the anti-bounce loop                  *)
(***************************************************************************)
BounceDone ==
    /\ pc = "bounce"
    /\ ~BounceMore(i)
    /\ previous_result' = result
    /\ pedal' = [pedal EXCEPT !.value = result]
    /\ pc' = "dispatch"
    /\ UNCHANGED <<now, transportVars, tempoVars, result, sw_this_press,
                   sw_previous_press, i, windows, tapVars, usbVars, midi_tx, stream,
                   jumps, taps, tempo_down, slices>>

(***************************************************************************)
(* main loop, lines 276-364: the pedal dispatch                            *)
(***************************************************************************)
Dispatch ==
    /\ pc = "dispatch"
    /\ LET st0 == [song |-> song, play |-> play, pause |-> pause, tx |-> midi_tx,
                   interval |-> time_interval_between_ticks,
                   newint |-> new_time_interval_between_ticks,
                   deadline |-> time_to_send_next_clock,
                   last |-> time_of_last_clock,
                   this_press |-> this_press, previous_press |-> previous_press]
           st == IF pedal.change_state
                 THEN DispatchEdge(st0, pedal.value, pedal.change_time, now)
                 ELSE st0
       IN /\ song' = st.song
          /\ play' = st.play
          /\ pause' = st.pause
          /\ midi_tx' = st.tx
          /\ time_interval_between_ticks' = st.interval
          /\ new_time_interval_between_ticks' = st.newint
          /\ time_to_send_next_clock' = st.deadline
          /\ time_of_last_clock' = st.last
          /\ this_press' = st.this_press
          /\ previous_press' = st.previous_press
    /\ taps' = IF pedal.change_state /\ Has(pedal.value, TEMPO)
                THEN <<taps[2], now>> ELSE taps
    /\ tempo_down' = IF pedal.change_state /\ ~Has(pedal.value, TEMPO)
                      THEN NoTime ELSE tempo_down
    /\ pc' = "tick"
    /\ UNCHANGED <<now, switchVars, usbVars, stream, jumps, slices, press_on, site>>

\* variant: no test of connected
SendMidi_Unguarded(buffer, tx_cables, nwritten) ==
    IF tx_cables THEN SubSeq(buffer, 1, nwritten) ELSE <<>>

\* send_midi: the bytes of buffer that reach tuh_midi_stream_write and are
\* accepted by it; tx_cables is tuh_midih_get_num_tx_cables (midi_dev_addr) >= 1,
\* nwritten the count the stream write returns
SendMidi(buffer, tx_cables, nwritten) ==
    IF connected /\ tx_cables THEN SubSeq(buffer, 1, nwritten) ELSE <<>>

(***************************************************************************)
(* main loop, lines 367-377: tick check, send and empty midi_tx, flush,    *)
(* poll_usb_rx.  short is the number of bytes the stream write does not    *)
(* accept.                                                                 *)
(***************************************************************************)
\* variant: index_tx is not set back to 0 after the send
TickFlush_NoReset(tx_cables, short) ==
    /\ pc = "tick"
    /\ LET st == TickCheck([tx |-> midi_tx, last |-> time_of_last_clock,
                            deadline |-> time_to_send_next_clock,
                            interval |-> time_interval_between_ticks], now)
           lg == Len(st.tx)
       IN /\ time_of_last_clock' = st.last
          /\ time_to_send_next_clock' = st.deadline
          /\ short <= lg
          /\ stream' = IF lg # 0
                       THEN stream \o SendMidi(st.tx, tx_cables, lg - short)
                       ELSE stream
          /\ midi_tx' = st.tx
    /\ pc' = "task"
    /\ UNCHANGED <<now, transportVars, time_interval_between_ticks,
                   new_time_interval_between_ticks, switchVars, tapVars, usbVars,
                   jumps, taps, tempo_down, slices>>

\* variant: the bytes the stream write did not accept stay in midi_tx
TickFlush_KeepsRest(tx_cables, short) ==
    /\ pc = "tick"
    /\ LET st == TickCheck([tx |-> midi_tx, last |-> time_of_last_clock,
                            deadline |-> time_to_send_next_clock,
                            interval |-> time_interval_between_ticks], now)
           lg == Len(st.tx)
       IN /\ time_of_last_clock' = st.last
          /\ time_to_send_next_clock' = st.deadline
          /\ short <= lg
          /\ stream' = IF lg # 0
                       THEN stream \o SendMidi(st.tx, tx_cables, lg - short)
                       ELSE stream
          /\ midi_tx' = SubSeq(st.tx, lg - short + 1, lg)
    /\ pc' = "task"
    /\ UNCHANGED <<now, transportVars, time_interval_between_ticks,
                   new_time_interval_between_ticks, switchVars, tapVars, usbVars,
                   jumps, taps, tempo_down, slices>>

TickFlush(tx_cables, short) ==
    /\ pc = "tick"
    /\ LET st == TickCheck([tx |-> midi_tx, last |-> time_of_last_clock,
                            deadline |-> time_to_send_next_clock,
                            interval |-> time_interval_between_ticks], now)
           lg == Len(st.tx)
       IN /\ time_of_last_clock' = st.last
          /\ time_to_send_next_clock' = st.deadline
          /\ short <= lg
          /\ stream' = IF lg # 0
                       THEN stream \o SendMidi(st.tx, tx_cables, lg - short)
                       ELSE stream
          /\ midi_tx' = <<>>
    /\ pc' = "task"
    /\ UNCHANGED <<now, transportVars, time_interval_between_ticks,
                   new_time_interval_between_ticks, switchVars, tapVars, usbVars,
                   jumps, taps, tempo_down, slices>>

(***************************************************************************)
(* TinyUSB callbacks.  The host stack is not part of the source; where it  *)
(* calls them is taken from the specification: one run loop, no preemptive *)
(* threads, the shared state mutated by the loop thread only, so the       *)
(* callbacks run while the loop is inside tuh_task(), at the position p.   *)
(***************************************************************************)
HostCallbackAt(p) == pc = p

\* variant: the device mounted last is the registered one
MountCb_Overwrite(dev_addr) ==
    /\ HostCallbackAt("task")
    /\ midi_dev_addr' = dev_addr
    /\ UNCHANGED <<now, pc, transportVars, tempoVars, switchVars, tapVars,
                   connected, midi_rx, bytes_read, cable_num, midi_tx, stream, jumps, taps, tempo_down, slices>>

MountCb(dev_addr) ==
    /\ HostCallbackAt("task")
    /\ midi_dev_addr' = IF midi_dev_addr = 0 THEN dev_addr ELSE midi_dev_addr
    /\ UNCHANGED <<now, pc, transportVars, tempoVars, switchVars, tapVars,
                   connected, midi_rx, bytes_read, cable_num, midi_tx, stream, jumps, taps, tempo_down, slices>>

UmountCb(dev_addr) ==
    /\ HostCallbackAt("task")
    /\ midi_dev_addr' = IF dev_addr = midi_dev_addr THEN 0 ELSE midi_dev_addr
    /\ UNCHANGED <<now, pc, transportVars, tempoVars, switchVars, tapVars,
                   connected, midi_rx, bytes_read, cable_num, midi_tx, stream, jumps, taps, tempo_down, slices>>

\* tuh_midi_rx_cb (dev_addr, num_packets) with one buffer pending, which
\* tuh_midi_stream_read reports on cable cable_num (the next read returns 0):
\* the buffer lands in midi_rx whatever its cable and is interpreted when the
\* cable is 0
RxDeliver(dev_addr, num_packets, cable, buf) ==
    IF midi_dev_addr = dev_addr /\ num_packets # 0
    THEN LET buffer == RxFill(midi_rx, buf)
             st0 == [song |-> song, play |-> play, pause |-> pause]
             st == IF cable = 0 THEN RxScan(st0, buffer, Len(buf), 0) ELSE st0
         IN /\ midi_rx' = buffer
            /\ bytes_read' = Len(buf)
            /\ cable_num' = cable
            /\ song' = st.song
            /\ play' = st.play
            /\ pause' = st.pause
    ELSE UNCHANGED <<midi_rx, bytes_read, cable_num, transportVars>>

\* tuh_midi_rx_cb, called from tuh_task()
RxCb(dev_addr, num_packets, cable, buf) ==
    /\ HostCallbackAt("task")
    /\ RxDeliver(dev_addr, num_packets, cable, buf)
    /\ UNCHANGED <<now, pc, tempoVars, switchVars, tapVars, midi_dev_addr,
                   connected, midi_tx, stream, jumps, taps, tempo_down, slices>>

(***************************************************************************)
(* The earlier revision with the busy-wait anti-bounce, the second file of *)
(* src/picovation.c (lines 472-957).  Its test_switch runs the anti-bounce *)
(* loop on every call that finds a pedal down, and its main loop waits for *)
(* the release of every pedal after a dispatch.  Its positions are named   *)
(* b_...; the pedal branches, the tap logic, send_clock, send_midi and the *)
(* callbacks read the same as in the latest revision.                      *)
(***************************************************************************)
InitB ==
    /\ now = 0
    /\ pc = "b_task"
    /\ song = 0
    /\ midi_dev_addr = 0
    /\ connected = FALSE
    /\ play = FALSE
    /\ pause = FALSE
    /\ time_interval_between_ticks = INITIAL_INTERVAL
    /\ new_time_interval_between_ticks = INITIAL_INTERVAL
    /\ time_to_send_next_clock = UINT64_MAX
    /\ time_of_last_clock = 0
    /\ midi_rx = [k \in 1..RxCells |-> 0]
    /\ bytes_read = 0
    /\ cable_num = 0
    /\ midi_tx = <<>>
    /\ result = 0
    /\ previous_result = 0
    /\ sw_this_press = 0
    /\ sw_previous_press = 0
    /\ i = 0
    /\ pedal = [value |-> 0, change_state |-> FALSE, change_time |-> 0]
    /\ this_press = 0
    /\ previous_press = 0
    /\ press_on = 0
    /\ site = "main"
    /\ stream = <<>>
    /\ windows = 0
    /\ jumps = 0
    /\ taps = <<NoTime, NoTime>>
    /\ tempo_down = NoTime
    /\ slices = 0

\* src/picovation.c:713-715
UsbTaskB(d, configured) ==
    /\ pc = "b_task"
    /\ now + d <= MaxTime
    /\ now' = now + d
    /\ jumps' = IF d > 0 THEN jumps + 1 ELSE jumps
    /\ jumps' <= MaxJumps
    /\ slices' = 0
    /\ connected' = (midi_dev_addr # 0 /\ configured)
    /\ stream' = <<>>
    /\ pc' = "b_call"
    /\ site' = "main"
    /\ UNCHANGED <<transportVars, tempoVars, switchVars, this_press,
                   previous_press, press_on, midi_dev_addr, midi_rx, bytes_read, cable_num, midi_tx,
                   taps, tempo_down>>

\* src/picovation.c:622-652: test_switch reads the pressed mask m
CallTestSwitchB(m, max_windows) ==
    /\ pc = "b_call"
    /\ result' = m
    /\ IF m # 0
       THEN /\ windows < max_windows
            /\ windows' = windows + 1
            /\ i' = 0
            /\ pc' = "b_bounce"
       ELSE /\ pc' = "b_ret"
            /\ UNCHANGED <<windows, i>>
    /\ tempo_down' = IF Has(m, TEMPO) /\ tempo_down = NoTime THEN now
                     ELSE IF ~Has(m, TEMPO) THEN NoTime ELSE tempo_down
    /\ UNCHANGED <<now, transportVars, tempoVars, previous_result, sw_this_press,
                   sw_previous_press, pedal, tapVars, usbVars, midi_tx, stream,
                   jumps, taps, slices>>

\* what a cell past the end of midi_tx holds is not known
UNKNOWN_BYTE == 256

\* x with its lowest byte replaced by b (x in two's complement)
LowByte(x, b) == x - (x % 256) + b

\* the index_tx cells counted by an index v above MIDI_BUF_SIZE: the cells
\* of midi_tx, then cells that are not part of the array
PastTx(tx, v) ==
    [k \in 1..v |-> IF k <= MIDI_BUF_SIZE THEN tx[k] ELSE UNKNOWN_BYTE]

\* src/picovation.c:558-574, 605-618 and 657: the tick check made with the
\* clock due and index_tx = MIDI_BUF_SIZE.  midi_tx [index_tx++] = MIDI_CLOCK
\* then stores 0xF8 in the byte behind the last cell of midi_tx, which is
\* undefined.  midi_tx is a block of MIDI_BUF_SIZE bytes, so that byte is
\* padding, a byte of an object of another file, or the first (lowest) byte
\* of the object of this file the linker has put there; and the compiler,
\* which may take it that the store changes no other object, may let the
\* byte arrive before or after the accesses that follow it (index_tx++,
\* time_of_last_clock = time, time_to_send_next_clock = time_of_last_clock +
\* time_interval_between_ticks).  s holds the values before the check; the
\* set holds one record for every object and order.
OverflowOutcomes(s, time) ==
    LET base == [s EXCEPT !.tx = PastTx(s.tx, MIDI_BUF_SIZE + 1),
                          !.last = time,
                          !.deadline = UAdd(time, s.interval)]
        F(x) == LowByte(x, MIDI_CLOCK)
    IN {base}
       \cup {[base EXCEPT !.tx = PastTx(s.tx, v)] :
                v \in {F(MIDI_BUF_SIZE + 1), F(MIDI_BUF_SIZE) + 1}}
       \cup {[base EXCEPT !.rx = [s.rx EXCEPT ![1] = MIDI_CLOCK]]}
       \cup {[base EXCEPT !.song = MIDI_CLOCK]}
       \cup {[base EXCEPT !.dev = MIDI_CLOCK]}
       \cup {[base EXCEPT !.connected = TRUE]}
       \cup {[base EXCEPT !.play = TRUE]}
       \cup {[base EXCEPT !.pause = TRUE]}
       \cup {[base EXCEPT !.interval = F(s.interval)],
             [base EXCEPT !.interval = F(s.interval),
                          !.deadline = UAdd(time, F(s.interval))]}
       \cup {[base EXCEPT !.newint = F(s.newint)]}
       \cup {[base EXCEPT !.deadline = F(UAdd(time, s.interval))]}
       \cup {[base EXCEPT !.last = F(time)],
             [base EXCEPT !.last = F(time),
                          !.deadline = UAdd(F(time), s.interval)]}

\* src/picovation.c:605-618 and its callers at 657 and 834: what one tick
\* check can leave behind, from a state with index_tx <= MIDI_BUF_SIZE
SliceOutcomesB(s, time) ==
    IF ~ClockDue(time, s.deadline) THEN {s}
    ELSE IF Len(s.tx) < MIDI_BUF_SIZE
         THEN {[s EXCEPT !.tx = Append(@, MIDI_CLOCK),
                         !.last = time,
                         !.deadline = UAdd(time, s.interval)]}
         ELSE OverflowOutcomes(s, time)

\* src/picovation.c:654-658: one turn of the anti-bounce loop.  What the
\* program does once a store has gone past the end of midi_tx is not
\* modelled: the turn is taken with index_tx <= MIDI_BUF_SIZE only.
BounceSliceB(max_time) ==
    /\ pc = "b_bounce"
    /\ BounceMore(i)
    /\ Len(midi_tx) <= MIDI_BUF_SIZE
    /\ now + SliceUs <= max_time
    /\ now' = now + SliceUs
    /\ \E o \in SliceOutcomesB([tx |-> midi_tx, last |-> time_of_last_clock,
                                deadline |-> time_to_send_next_clock,
                                interval |-> time_interval_between_ticks,
                                newint |-> new_time_interval_between_ticks,
                                song |-> song, play |-> play, pause |-> pause,
                                dev |-> midi_dev_addr, connected |-> connected,
                                rx |-> midi_rx], now') :
          /\ midi_tx' = o.tx
          /\ time_of_last_clock' = o.last
          /\ time_to_send_next_clock' = o.deadline
          /\ time_interval_between_ticks' = o.interval
          /\ new_time_interval_between_ticks' = o.newint
          /\ song' = o.song
          /\ play' = o.play
          /\ pause' = o.pause
          /\ midi_dev_addr' = o.dev
          /\ connected' = o.connected
          /\ midi_rx' = o.rx
    /\ i' = i + 1
    /\ slices' = slices + 1
    /\ UNCHANGED <<pc, result, previous_result, sw_this_press,
                   sw_previous_press, pedal, windows, tapVars, bytes_read,
                   cable_num, stream, jumps, taps, tempo_down>>

\* src/picovation.c:654-658: k turns of the anti-bounce loop from time on,
\* on the record of TickCheck
RECURSIVE BounceLoopB(_, _, _)
BounceLoopB(st, time, k) ==
    IF k = 0 THEN st
    ELSE LET t == time + SliceUs
         IN IF ClockDue(t, st.deadline)
            THEN BounceLoopB(TickCheck(st, t), t, k - 1)
            ELSE BounceLoopB(st, t, k - 1)

\* n runs of the anti-bounce loop one after the other, from time on
RECURSIVE HoldLoopB(_, _, _)
HoldLoopB(st, time, n) ==
    IF n = 0 THEN st
    ELSE HoldLoopB(BounceLoopB(st, time, BOUNCE_SLICES),
                   time + BOUNCE_SLICES * SliceUs, n - 1)

\* src/picovation.c:796-799 and 827-830: n turns of while (test_switch (...))
\* {} that each find the pedal still down, every turn running the 30 turns
\* of the anti-bounce loop, when every store of these turns is within
\* midi_tx; the turn that stores past it is taken by BounceSliceB
HoldTurnsB(n, max_time) ==
    /\ pc = "b_call" /\ site \in {"tempo_wait", "release_wait"}
    /\ result # 0
    /\ now + n * BOUNCE_SLICES * SliceUs <= max_time
    /\ now' = now + n * BOUNCE_SLICES * SliceUs
    /\ LET st == HoldLoopB([tx |-> midi_tx, last |-> time_of_last_clock,
                            deadline |-> time_to_send_next_clock,
                            interval |-> time_interval_between_ticks],
                           now, n)
       IN /\ Len(st.tx) <= MIDI_BUF_SIZE
          /\ midi_tx' = st.tx
          /\ time_of_last_clock' = st.last
          /\ time_to_send_next_clock' = st.deadline
    /\ i' = BOUNCE_SLICES
    /\ windows' = windows + n
    /\ slices' = slices + n * BOUNCE_SLICES
    /\ UNCHANGED <<pc, transportVars, time_interval_between_ticks,
                   new_time_interval_between_ticks, result, previous_result,
                   sw_this_press, sw_previous_press, pedal, tapVars, usbVars,
                   stream, jumps, taps, tempo_down>>

\* src/picovation.c:659: return result
BounceDoneB ==
    /\ pc = "b_bounce"
    /\ ~BounceMore(i)
    /\ pc' = "b_ret"
    /\ UNCHANGED <<now, transportVars, tempoVars, switchVars, tapVars, usbVars,
                   midi_tx, stream, jumps, taps, tempo_down, slices>>

\* src/picovation.c:718-793: pedal = test_switch (...), the pedal branches and
\* the tap logic, up to the wait for the release of the tap pedal, when
\* every store of the branches is within midi_tx
DispatchB ==
    /\ pc = "b_ret" /\ site = "main"
    /\ LET st0 == [song |-> song, play |-> play, pause |-> pause, tx |-> midi_tx,
                   interval |-> time_interval_between_ticks,
                   newint |-> new_time_interval_between_ticks,
                   deadline |-> time_to_send_next_clock,
                   last |-> time_of_last_clock,
                   this_press |-> this_press, previous_press |-> previous_press]
           st == TempoBranch(
                     ContinueBranch(PlayBranch(NavBranch(st0, result), result), result),
                     result, now)
       IN /\ Len(st.tx) <= MIDI_BUF_SIZE
          /\ song' = st.song
          /\ play' = st.play
          /\ pause' = st.pause
          /\ midi_tx' = st.tx
          /\ time_interval_between_ticks' = st.interval
          /\ new_time_interval_between_ticks' = st.newint
          /\ time_to_send_next_clock' = st.deadline
          /\ time_of_last_clock' = st.last
          /\ this_press' = st.this_press
          /\ previous_press' = st.previous_press
    /\ pedal' = [pedal EXCEPT !.value = result]
    /\ press_on' = IF Has(result, TEMPO) THEN now ELSE press_on
    /\ taps' = IF Has(result, TEMPO) THEN <<taps[2], now>> ELSE taps
    /\ IF Has(result, TEMPO)
       THEN pc' = "b_call" /\ site' = "tempo_wait"
       ELSE pc' = "b_flush" /\ UNCHANGED site
    /\ UNCHANGED <<now, result, previous_result, sw_this_press, sw_previous_press,
                   i, windows, usbVars, stream, jumps, tempo_down, slices>>

\* src/picovation.c:796-813: while (test_switch (...)) {}, then the test of
\* the time the pedal was held
TempoWaitB ==
    /\ pc = "b_ret" /\ site = "tempo_wait"
    /\ IF result # 0
       THEN /\ pc' = "b_call"
            /\ UNCHANGED <<time_to_send_next_clock, previous_press>>
       ELSE /\ pc' = "b_flush"
            /\ IF ~ULt(USub(now, press_on), EXIT_FUNCTION)
               THEN /\ time_to_send_next_clock' = UINT64_MAX
                    /\ previous_press' = 0
               ELSE UNCHANGED <<time_to_send_next_clock, previous_press>>
    /\ UNCHANGED <<now, transportVars, time_interval_between_ticks,
                   new_time_interval_between_ticks, time_of_last_clock,
                   switchVars, this_press, press_on, site, usbVars, midi_tx,
                   stream, jumps, taps, tempo_down, slices>>

\* src/picovation.c:817-826: send and empty midi_tx, then enter the wait for
\* the release when a pedal was down
FlushB(tx_cables, short) ==
    /\ pc = "b_flush"
    /\ Len(midi_tx) <= MIDI_BUF_SIZE
    /\ short <= Len(midi_tx)
    /\ stream' = IF Len(midi_tx) # 0
                 THEN stream \o SendMidi(midi_tx, tx_cables, Len(midi_tx) - short)
                 ELSE stream
    /\ midi_tx' = <<>>
    /\ IF pedal.value # 0
       THEN pc' = "b_call" /\ site' = "release_wait"
       ELSE pc' = "b_tick" /\ UNCHANGED site
    /\ UNCHANGED <<now, transportVars, tempoVars, switchVars, this_press,
                   previous_press, press_on, usbVars, jumps, taps, tempo_down,
                   slices>>

\* src/picovation.c:827-830: while (test_switch (...)) {}
ReleaseWaitB ==
    /\ pc = "b_ret" /\ site = "release_wait"
    /\ pc' = IF result # 0 THEN "b_call" ELSE "b_tick"
    /\ UNCHANGED <<now, transportVars, tempoVars, switchVars, tapVars, usbVars,
                   midi_tx, stream, jumps, taps, tempo_down, slices>>

\* src/picovation.c:833-843: tick check, send and empty midi_tx, flush,
\* poll_usb_rx.  With the clock due and index_tx = MIDI_BUF_SIZE the store of
\* the tick check goes past midi_tx and leaves any of the OverflowOutcomes;
\* send_midi then reads index_tx cells from midi_tx on, and connected as the
\* store has left it.  The step is not taken from a state in which an
\* earlier store has already gone past midi_tx.
TickFlushB(tx_cables, short) ==
    /\ pc = "b_tick"
    /\ Len(midi_tx) <= MIDI_BUF_SIZE
    /\ \E o \in SliceOutcomesB([tx |-> midi_tx, last |-> time_of_last_clock,
                                deadline |-> time_to_send_next_clock,
                                interval |-> time_interval_between_ticks,
                                newint |-> new_time_interval_between_ticks,
                                song |-> song, play |-> play, pause |-> pause,
                                dev |-> midi_dev_addr, connected |-> connected,
                                rx |-> midi_rx], now) :
          /\ short <= Len(o.tx)
          /\ stream' = IF Len(o.tx) # 0 /\ o.connected /\ tx_cables
                       THEN stream \o SubSeq(o.tx, 1, Len(o.tx) - short)
                       ELSE stream
          /\ midi_tx' = <<>>
          /\ time_of_last_clock' = o.last
          /\ time_to_send_next_clock' = o.deadline
          /\ time_interval_between_ticks' = o.interval
          /\ new_time_interval_between_ticks' = o.newint
          /\ song' = o.song
          /\ play' = o.play
          /\ pause' = o.pause
          /\ midi_dev_addr' = o.dev
          /\ connected' = o.connected
          /\ midi_rx' = o.rx
    /\ pc' = "b_task"
    /\ UNCHANGED <<now, switchVars, tapVars, bytes_read, cable_num, jumps,
                   taps, tempo_down, slices>>

\* src/picovation.c:857-870, called from tuh_task()
MountCbB(dev_addr) ==
    /\ HostCallbackAt("b_task")
    /\ midi_dev_addr' = IF midi_dev_addr = 0 THEN dev_addr ELSE midi_dev_addr
    /\ UNCHANGED <<now, pc, transportVars, tempoVars, switchVars, tapVars,
                   connected, midi_rx, bytes_read, cable_num, midi_tx, stream, jumps, taps, tempo_down, slices>>

\* src/picovation.c:873-882, called from tuh_task()
UmountCbB(dev_addr) ==
    /\ HostCallbackAt("b_task")
    /\ midi_dev_addr' = IF dev_addr = midi_dev_addr THEN 0 ELSE midi_dev_addr
    /\ UNCHANGED <<now, pc, transportVars, tempoVars, switchVars, tapVars,
                   connected, midi_rx, bytes_read, cable_num, midi_tx, stream, jumps, taps, tempo_down, slices>>

\* src/picovation.c:885-951: tuh_midi_rx_cb, the same interpreter as in the
\* latest revision, called from tuh_task()
RxCbB(dev_addr, num_packets, cable, buf) ==
    /\ HostCallbackAt("b_task")
    /\ RxDeliver(dev_addr, num_packets, cable, buf)
    /\ UNCHANGED <<now, pc, tempoVars, switchVars, tapVars, midi_dev_addr,
                   connected, midi_tx, stream, jumps, taps, tempo_down, slices>>

(***************************************************************************)
(* The first revision, the first file of src/picovation.c (lines 1-471).   *)
(* It has no pause flag and no midi_tx: every send_midi hands its bytes to *)
(* the stream write at once.  test_switch sleeps 30 ms when a pedal is     *)
(* down, main() waits for the release of the pedals, and the locals        *)
(* time_to_send_next_clock and time_interval_between_ticks of main() are   *)
(* not initialised.  Its positions are named a_...                         *)
(***************************************************************************)
\* src/picovation.c:139-150: send_midi (connected, buffer, lg), the bytes of
\* buffer that reach tuh_midi_stream_write and are accepted by it; tx_cables
\* is tuh_midih_get_num_tx_cables (midi_dev_addr) >= 1, short the number of
\* bytes the stream write leaves unwritten (all of them when short >= lg)
SendMidiA(buffer, tx_cables, short) ==
    SendMidi(buffer, tx_cables,
             IF short >= Len(buffer) THEN 0 ELSE Len(buffer) - short)

\* src/picovation.c:221-222: int64_t time_interval_between_ticks and
\* int64_t time_to_send_next_clock of main() have no initialiser, so each
\* holds an indeterminate value until the tap branch assigns it.  The model
\* keeps the mark INDETERMINATE in such a variable, the one encoding (2^64 -
\* 2) that no assignment of this revision produces; a read of a marked
\* variable gives any 64-bit value, and need not give the same one twice.
INDETERMINATE == 0 - 2

\* src/picovation.c:175-176: time >= when_to_send as send_clock tests it.
\* With an indeterminate when_to_send the test can go either way at every
\* time (the value read may be 0 or the all-ones value): due is its outcome.
ClockDueA(time, when_to_send, due) ==
    IF when_to_send = INDETERMINATE THEN due ELSE ClockDue(time, when_to_send)

\* src/picovation.c:389-390: time + time_interval_between_ticks; with an
\* indeterminate interval the sum is any 64-bit value again
NextDeadlineA(time, interval) ==
    IF interval = INDETERMINATE THEN INDETERMINATE ELSE UAdd(time, interval)

\* if (send_clock (connected, time_to_send_next_clock))
\*     time_to_send_next_clock = to_us_since_boot (...) + time_interval_between_ticks;
\* on a record with the fields stream, deadline and interval
TickCheckA(st, time, tx_cables, short, due) ==
    IF ClockDueA(time, st.deadline, due)
    THEN [st EXCEPT !.stream = @ \o SendMidiA(<<MIDI_CLOCK>>, tx_cables, short),
                    !.deadline = NextDeadlineA(time, st.interval)]
    ELSE st

\* src/picovation.c:272-281
NavBranchA(st, value, tx_cables, short) ==
    IF Has(value, NEXT) \/ Has(value, PREV)
    THEN LET s1 == IF Has(value, NEXT) THEN NextSong(st.song) ELSE st.song
             s2 == IF Has(value, PREV) THEN PrevSong(s1) ELSE s1
         IN [st EXCEPT !.song = s2,
                       !.stream = @ \o SendMidiA(<<MIDI_PRG_CHANGE, s2>>,
                                                 tx_cables, short)]
    ELSE st

\* src/picovation.c:284-295
PlayBranchA(st, value, tx_cables, short) ==
    IF Has(value, PLAY)
    THEN IF st.play
         THEN [st EXCEPT !.play = FALSE,
                         !.stream = @ \o SendMidiA(<<MIDI_STOP>>, tx_cables, short)]
         ELSE [st EXCEPT !.play = TRUE,
                         !.stream = @ \o SendMidiA(<<MIDI_PLAY>>, tx_cables, short)]
    ELSE st

\* src/picovation.c:298-302
PauseBranchA(st, value, tx_cables, short) ==
    IF Has(value, PAUSE)
    THEN [st EXCEPT !.stream = @ \o SendMidiA(<<MIDI_PAUSE>>, tx_cables, short)]
    ELSE st

\* src/picovation.c:305-344
TempoBranchA(st, value, time, tx_cables, short) ==
    IF Has(value, TEMPO)
    THEN LET q == UDiv(USub(time, st.previous_press), NB_TICKS)
             a == [st EXCEPT !.this_press = time, !.interval = q]
             b == IF InWindow(q)
                  THEN TickCheckA([a EXCEPT !.deadline = UAdd(time, q)], time,
                                  tx_cables, short, FALSE)
                  ELSE a
         IN [b EXCEPT !.previous_press = time]
    ELSE st

InitA ==
    /\ now = 0
    /\ pc = "a_task"
    /\ song = 0
    /\ midi_dev_addr = 0
    /\ connected = FALSE
    /\ play = FALSE
    /\ pause = FALSE
    /\ time_interval_between_ticks = INDETERMINATE
    /\ new_time_interval_between_ticks = 0
    /\ time_to_send_next_clock = INDETERMINATE
    /\ time_of_last_clock = 0
    /\ midi_rx = [k \in 1..RxCells |-> 0]
    /\ bytes_read = 0
    /\ cable_num = 0
    /\ midi_tx = <<>>
    /\ result = 0
    /\ previous_result = 0
    /\ sw_this_press = 0
    /\ sw_previous_press = 0
    /\ i = 0
    /\ pedal = [value |-> 0, change_state |-> FALSE, change_time |-> 0]
    /\ this_press = 0
    /\ previous_press = 0
    /\ press_on = 0
    /\ site = "main"
    /\ stream = <<>>
    /\ windows = 0
    /\ jumps = 0
    /\ taps = <<NoTime, NoTime>>
    /\ tempo_down = NoTime
    /\ slices = 0

\* src/picovation.c:264-266
UsbTaskA(d, configured) ==
    /\ pc = "a_task"
    /\ now + d <= MaxTime
    /\ now' = now + d
    /\ jumps' = IF d > 0 THEN jumps + 1 ELSE jumps
    /\ jumps' <= MaxJumps
    /\ slices' = 0
    /\ connected' = (midi_dev_addr # 0 /\ configured)
    /\ stream' = <<>>
    /\ pc' = "a_call"
    /\ site' = "main"
    /\ UNCHANGED <<transportVars, tempoVars, switchVars, this_press,
                   previous_press, press_on, midi_dev_addr, midi_rx, bytes_read, cable_num, midi_tx,
                   taps, tempo_down>>

\* src/picovation.c:97-137: test_switch reads the pressed mask m and sleeps
\* 30 ms when a pedal is down
CallTestSwitchA(m, max_windows) ==
    /\ pc = "a_call"
    /\ result' = m
    /\ IF m # 0
       THEN /\ windows < max_windows
            /\ windows' = windows + 1
            /\ now + BOUNCE_US <= MaxTime
            /\ now' = now + BOUNCE_US
            /\ slices' = slices + BOUNCE_SLICES
       ELSE UNCHANGED <<windows, now, slices>>
    /\ pc' = "a_ret"
    /\ tempo_down' = IF Has(m, TEMPO) /\ tempo_down = NoTime THEN now
                     ELSE IF ~Has(m, TEMPO) THEN NoTime ELSE tempo_down
    /\ UNCHANGED <<transportVars, tempoVars, previous_result, sw_this_press,
                   sw_previous_press, i, pedal, tapVars, usbVars, midi_tx, stream,
                   jumps, taps>>

\* src/picovation.c:269-344: pedal = test_switch (...) and the pedal branches
DispatchA(tx_cables, short) ==
    /\ pc = "a_ret" /\ site = "main"
    /\ LET st0 == [song |-> song, play |-> play, stream |-> stream,
                   interval |-> time_interval_between_ticks,
                   deadline |-> time_to_send_next_clock,
                   this_press |-> this_press, previous_press |-> previous_press]
           st == TempoBranchA(
                     PauseBranchA(
                         PlayBranchA(NavBranchA(st0, result, tx_cables, short),
                                     result, tx_cables, short),
                         result, tx_cables, short),
                     result, now, tx_cables, short)
       IN /\ song' = st.song
          /\ play' = st.play
          /\ stream' = st.stream
          /\ time_interval_between_ticks' = st.interval
          /\ time_to_send_next_clock' = st.deadline
          /\ this_press' = st.this_press
          /\ previous_press' = st.previous_press
    /\ pedal' = [pedal EXCEPT !.value = result]
    /\ press_on' = IF Has(result, TEMPO) THEN now ELSE press_on
    /\ taps' = IF Has(result, TEMPO) THEN <<taps[2], now>> ELSE taps
    /\ IF Has(result, TEMPO)
       THEN pc' = "a_call" /\ site' = "tempo_wait"
       ELSE pc' = "a_rel" /\ UNCHANGED site
    /\ UNCHANGED <<now, pause, new_time_interval_between_ticks, time_of_last_clock,
                   result, previous_result, sw_this_press, sw_previous_press, i,
                   windows, usbVars, midi_tx, jumps, tempo_down, slices>>

\* src/picovation.c:347-371: the wait for the release of the tap pedal, with
\* the tick check in its body, then the test of the time the pedal was held
TempoWaitA(tx_cables, short, due) ==
    /\ pc = "a_ret" /\ site = "tempo_wait"
    /\ LET st0 == [stream |-> stream, deadline |-> time_to_send_next_clock,
                   interval |-> time_interval_between_ticks]
       IN IF result # 0
          THEN /\ stream' = TickCheckA(st0, now, tx_cables, short, due).stream
               /\ time_to_send_next_clock' = TickCheckA(st0, now, tx_cables, short, due).deadline
               /\ pc' = "a_call"
               /\ UNCHANGED previous_press
          ELSE /\ pc' = "a_rel"
               /\ IF ~ULt(USub(now, press_on), EXIT_FUNCTION)
                  THEN /\ time_to_send_next_clock' = UINT64_MAX
                       /\ previous_press' = 0
                  ELSE UNCHANGED <<time_to_send_next_clock, previous_press>>
               /\ UNCHANGED stream
    /\ UNCHANGED <<now, transportVars, time_interval_between_ticks,
                   new_time_interval_between_ticks, time_of_last_clock,
                   switchVars, this_press, press_on, site, usbVars, midi_tx,
                   jumps, taps, tempo_down, slices>>

\* src/picovation.c:376-379: if (pedal) { flush; enter the wait for the release }
ReleaseA ==
    /\ pc = "a_rel"
    /\ IF pedal.value # 0
       THEN pc' = "a_call" /\ site' = "release_wait"
       ELSE pc' = "a_tick" /\ UNCHANGED site
    /\ UNCHANGED <<now, transportVars, tempoVars, switchVars, this_press,
                   previous_press, press_on, usbVars, midi_tx, stream, jumps, taps,
                   tempo_down, slices>>

\* src/picovation.c:380-385: the wait for the release, with the tick check
ReleaseWaitA(tx_cables, short, due) ==
    /\ pc = "a_ret" /\ site = "release_wait"
    /\ LET st0 == [stream |-> stream, deadline |-> time_to_send_next_clock,
                   interval |-> time_interval_between_ticks]
       IN IF result # 0
          THEN /\ stream' = TickCheckA(st0, now, tx_cables, short, due).stream
               /\ time_to_send_next_clock' = TickCheckA(st0, now, tx_cables, short, due).deadline
               /\ pc' = "a_call"
          ELSE /\ pc' = "a_tick"
               /\ UNCHANGED <<stream, time_to_send_next_clock>>
    /\ UNCHANGED <<now, transportVars, time_interval_between_ticks,
                   new_time_interval_between_ticks, time_of_last_clock,
                   switchVars, tapVars, usbVars, midi_tx, jumps, taps, tempo_down,
                   slices>>

\* src/picovation.c:388-392: tick check, flush, poll_usb_rx
TickA(tx_cables, short, due) ==
    /\ pc = "a_tick"
    /\ LET st == TickCheckA([stream |-> stream, deadline |-> time_to_send_next_clock,
                             interval |-> time_interval_between_ticks], now,
                            tx_cables, short, due)
       IN /\ stream' = st.stream
          /\ time_to_send_next_clock' = st.deadline
    /\ pc' = "a_task"
    /\ UNCHANGED <<now, transportVars, time_interval_between_ticks,
                   new_time_interval_between_ticks, time_of_last_clock,
                   switchVars, tapVars, usbVars, midi_tx, jumps, taps, tempo_down,
                   slices>>

\* src/picovation.c:407-420, called from tuh_task()
MountCbA(dev_addr) ==
    /\ HostCallbackAt("a_task")
    /\ midi_dev_addr' = IF midi_dev_addr = 0 THEN dev_addr ELSE midi_dev_addr
    /\ UNCHANGED <<now, pc, transportVars, tempoVars, switchVars, tapVars,
                   connected, midi_rx, bytes_read, cable_num, midi_tx, stream, jumps, taps, tempo_down, slices>>

\* src/picovation.c:451-458: the tests on bytes_read of tuh_midi_rx_cb
RxInterpretA(st, buffer, nread) ==
    IF nread = 1
    THEN IF buffer[1] = MIDI_PLAY THEN [st EXCEPT !.play = TRUE]
         ELSE IF buffer[1] = MIDI_STOP THEN [st EXCEPT !.play = FALSE]
         ELSE st
    ELSE IF nread = 2 /\ buffer[1] = MIDI_PRG_CHANGE /\ buffer[2] <= LAST_SONG
         THEN [st EXCEPT !.song = buffer[2]]
         ELSE st

\* src/picovation.c:423-432, called from tuh_task()
UmountCbA(dev_addr) ==
    /\ HostCallbackAt("a_task")
    /\ midi_dev_addr' = IF dev_addr = midi_dev_addr THEN 0 ELSE midi_dev_addr
    /\ UNCHANGED <<now, pc, transportVars, tempoVars, switchVars, tapVars,
                   connected, midi_rx, bytes_read, cable_num, midi_tx, stream, jumps, taps, tempo_down, slices>>

\* src/picovation.c:435-465: tuh_midi_rx_cb with one buffer pending, reported
\* on cable cable_num; midi_rx stands for its local buffer, which is filled
\* whatever the cable and tested when the cable is 0
RxCbA(dev_addr, num_packets, cable, buf) ==
    /\ HostCallbackAt("a_task")
    /\ IF midi_dev_addr = dev_addr /\ num_packets # 0
       THEN LET buffer == RxFill(midi_rx, buf)
                st0 == [song |-> song, play |-> play]
                st == IF cable = 0 THEN RxInterpretA(st0, buffer, Len(buf)) ELSE st0
            IN /\ midi_rx' = buffer
               /\ bytes_read' = Len(buf)
               /\ cable_num' = cable
               /\ song' = st.song
               /\ play' = st.play
       ELSE UNCHANGED <<midi_rx, bytes_read, cable_num, song, play>>
    /\ UNCHANGED <<now, pc, pause, tempoVars, switchVars, tapVars, midi_dev_addr,
                   connected, midi_tx, stream, jumps, taps, tempo_down, slices>>

(***************************************************************************)
(* Specifications                                                          *)
(***************************************************************************)
\* transport runs: every pedal but the tap pedal, one device that stays
\* mounted, inbound transport bytes and Program Changes; time passes in the
\* anti-bounce windows only
Next ==
    \/ UsbTask(0, TRUE)
    \/ \E m \in Masks : TestSwitch(m, MaxWindows)
    \/ BounceSlice
    \/ BounceDone
    \/ Dispatch
    \/ TickFlush(TRUE, 0)
    \/ MountCb(1)
    \/ \E c \in Cables : \E buf \in RxBuffers : RxCb(1, 1, c, buf)

Spec == Init /\ [][Next]_vars

\* song runs: Prev and Next, inbound Program Changes for every song
NextSongs ==
    \/ UsbTask(0, TRUE)
    \/ \E m \in {0, PREV, NEXT} : TestSwitch(m, MaxWindows)
    \/ BounceSlice
    \/ BounceDone
    \/ Dispatch
    \/ TickFlush(TRUE, 0)
    \/ MountCb(1)
    \/ \E buf \in SongBuffers : RxCb(1, 1, 0, buf)

SpecSongs == Init /\ [][NextSongs]_vars

\* runs with Prev, Next and inbound buffers of arbitrary bytes
NextRx ==
    \/ UsbTask(0, TRUE)
    \/ \E m \in {0, PREV, NEXT} : TestSwitch(m, MaxRxWindows)
    \/ BounceSlice
    \/ BounceDone
    \/ Dispatch
    \/ TickFlush(TRUE, 0)
    \/ MountCb(1)
    \/ \E buf \in ArbBuffers : RxCb(1, 1, 0, buf)

SpecRx == Init /\ [][NextRx]_vars

\* scan runs: the callbacks alone, inbound buffers of up to four bytes
NextScan ==
    \/ MountCb(1)
    \/ \E buf \in ScanBuffers : RxCb(1, 1, 0, buf)

SpecScan == Init /\ [][NextScan]_vars

\* tap-tempo runs: the tap pedal and Play, one device that stays mounted
NextTempo ==
    \/ \E d \in TempoDts : UsbTask(d, TRUE)
    \/ \E m \in TempoMasks : TestSwitch(m, MaxTempoWindows)
    \/ BounceSlice
    \/ BounceDone
    \/ Dispatch
    \/ TickFlush(TRUE, 0)
    \/ MountCb(1)

SpecTempo == Init /\ [][NextTempo]_vars

\* runs where the stream write may accept fewer bytes than requested
NextShort ==
    \/ UsbTask(0, TRUE)
    \/ \E m \in ShortMasks : TestSwitch(m, MaxWindows)
    \/ BounceSlice
    \/ BounceDone
    \/ Dispatch
    \/ \E short \in ShortCounts : TickFlush(TRUE, short)
    \/ MountCb(1)

SpecShort == Init /\ [][NextShort]_vars

\* runs where the device comes and goes and may not be configured
NextOffline ==
    \/ \E d \in OfflineDts, configured \in BOOLEAN : UsbTask(d, configured)
    \/ \E m \in OfflineMasks : TestSwitch(m, MaxWindows)
    \/ BounceSlice
    \/ BounceDone
    \/ Dispatch
    \/ TickFlush(TRUE, 0)
    \/ MountCb(1)
    \/ UmountCb(1)

SpecOffline == Init /\ [][NextOffline]_vars

\* runs of the earlier revision (src/picovation.c:472-957): Play and the tap
\* pedal, one device that stays mounted
NextB ==
    \/ \E d \in BDts : UsbTaskB(d, TRUE)
    \/ \E m \in BMasks : CallTestSwitchB(m, MaxBWindows)
    \/ BounceSliceB(MaxTime)
    \/ BounceDoneB
    \/ DispatchB
    \/ TempoWaitB
    \/ FlushB(TRUE, 0)
    \/ ReleaseWaitB
    \/ TickFlushB(TRUE, 0)
    \/ MountCbB(1)
    \/ UmountCbB(1)
    \/ \E c \in Cables : \E buf \in BRxBuffers : RxCbB(1, 1, c, buf)

SpecB == InitB /\ [][NextB]_vars

\* runs of the latest revision with the tap pedal and Play pressed one at a
\* time, one device that stays mounted
NextMixed ==
    \/ \E d \in MixedDts : UsbTask(d, TRUE)
    \/ \E m \in MixedMasks : TestSwitch(m, MaxMixedWindows)
    \/ BounceSlice
    \/ BounceDone
    \/ Dispatch
    \/ TickFlush(TRUE, 0)
    \/ MountCb(1)

SpecMixed == Init /\ [][NextMixed]_vars

\* runs of the latest revision with a hold of the tap pedal, a release and a
\* further press of it during which Play is pressed, one device that stays
\* mounted
NextResume ==
    \/ \E d \in ResumeDts : UsbTask(d, TRUE)
    \/ \E m \in ResumeMasks : TestSwitch(m, MaxResumeWindows)
    \/ BounceSlice
    \/ BounceDone
    \/ Dispatch
    \/ TickFlush(TRUE, 0)
    \/ MountCb(1)

SpecResume == Init /\ [][NextResume]_vars

\* runs of src/picovation.c (lines 472-957) that keep the tap pedal down
\* from the first poll that finds it down, up to the first store past the
\* end of midi_tx, which leaves any of the OverflowOutcomes
NextHold ==
    \/ \E d \in HoldDts : UsbTaskB(d, TRUE)
    \/ CallTestSwitchB(TEMPO, MaxHoldWindows)
    \/ BounceSliceB(MaxHoldTime)
    \/ BounceDoneB
    \/ DispatchB
    \/ TempoWaitB
    \/ \E n \in HoldTurns : HoldTurnsB(n, MaxHoldTime)

SpecHold == InitB /\ [][NextHold]_vars

\* runs of the first revision (src/picovation.c:1-471); due is the outcome
\* of the deadline test of send_clock while the deadline is indeterminate
NextA ==
    \/ \E d \in ADts : UsbTaskA(d, TRUE)
    \/ \E m \in AMasks : CallTestSwitchA(m, MaxAWindows)
    \/ DispatchA(TRUE, 0)
    \/ \E due \in BOOLEAN : TempoWaitA(TRUE, 0, due)
    \/ ReleaseA
    \/ \E due \in BOOLEAN : ReleaseWaitA(TRUE, 0, due)
    \/ \E due \in BOOLEAN : TickA(TRUE, 0, due)
    \/ MountCbA(1)
    \/ UmountCbA(1)
    \/ \E c \in Cables : \E buf \in RxBuffers : RxCbA(1, 1, c, buf)

SpecA == InitA /\ [][NextA]_vars

\* runs of the first revision where the device may have no tx cable and the
\* stream write may accept fewer bytes than requested
NextAShort ==
    \/ UsbTaskA(0, TRUE)
    \/ \E m \in ShortMasks : CallTestSwitchA(m, MaxAWindows)
    \/ \E tc \in BOOLEAN : \E short \in ShortCounts : DispatchA(tc, short)
    \/ ReleaseA
    \/ \E tc \in BOOLEAN : \E short \in ShortCounts : \E due \in BOOLEAN :
          ReleaseWaitA(tc, short, due)
    \/ \E tc \in BOOLEAN : \E short \in ShortCounts : \E due \in BOOLEAN :
          TickA(tc, short, due)
    \/ MountCbA(1)
    \/ UmountCbA(1)

SpecAShort == InitA /\ [][NextAShort]_vars


(***************************************************************************)
(* Properties                                                              *)
(***************************************************************************)
\* a step that is the pedal dispatch of an edge (pedal->change_state set)
EdgeDispatch == pc = "dispatch" /\ pc' = "tick" /\ pedal.change_state
\* the state right after the pedal dispatch of an edge
AfterEdge == pc = "tick" /\ pedal.change_state

\* C1: play and pause are never both true, whatever pedal events and inbound
\* MIDI buffers have occurred.
C1_NeverPlayAndPause == ~(play /\ pause)

\* C2: for two consecutive TempoTap events at times t1 < t2, with
\* q = (t2 - t1) div 24: if q lies in [10417, 62500] the second event sets
\* time_interval_between_ticks to q, otherwise the interval keeps its value.
C2_TapPairSetsInterval ==
    [][(EdgeDispatch /\ Has(pedal.value, TEMPO) /\ taps[2] # NoTime)
       => LET q == (now - taps[2]) \div NB_TICKS
          IN IF q >= BPM240_TICKS /\ q <= BPM40_TICKS
             THEN time_interval_between_ticks' = q
             ELSE time_interval_between_ticks' = time_interval_between_ticks]_vars

\* C2 witness: a second tap, after a release, whose quotient is the lower
\* end of the window, has set the interval to it.
C2_Witness ==
    /\ AfterEdge /\ pedal.value = TEMPO
    /\ taps[1] # NoTime
    /\ (taps[2] - taps[1]) \div NB_TICKS = BPM240_TICKS
    /\ time_interval_between_ticks = BPM240_TICKS
    /\ windows = 3

\* C3: a TempoTap event taken against the baseline previous_press = 0 (first
\* press after startup or after an auto-disable reset) leaves
\* time_interval_between_ticks unchanged, whatever the time since boot.
C3_FirstTapKeepsInterval ==
    [][(EdgeDispatch /\ Has(pedal.value, TEMPO) /\ previous_press = 0)
       => time_interval_between_ticks' = time_interval_between_ticks]_vars

\* C4: when the poll that observes the release of the tap pedal finds it was
\* down for at least 2,000,000 us, the dispatch of that poll leaves
\* time_to_send_next_clock at 0xFFFFFFFFFFFFFFFF, whatever the other pedals did.
C4_LongHoldDisables ==
    [][(EdgeDispatch /\ ~Has(pedal.value, TEMPO) /\ tempo_down # NoTime
          /\ sw_this_press - tempo_down >= EXIT_FUNCTION)
       => time_to_send_next_clock' = UINT64_MAX]_vars

\* C5: a MIDI Clock byte is handed to the stream write within one 1 ms slice
\* of being due: no Clock byte stays in midi_tx longer than that.
C5_ClockHandedWithinSlice ==
    (\E k \in 1..Len(midi_tx) : midi_tx[k] = MIDI_CLOCK)
        => now - time_of_last_clock <= SliceUs

\* C6: between two consecutive returns of tuh_task() the main loop runs at
\* most one anti-bounce window of 30 one-millisecond slices, however long a
\* pedal is held; it never waits for a pedal to be released.
C6_OneWindowPerPass == slices <= BOUNCE_SLICES

\* C7: running the tick check twice at the same current time queues at most
\* one MIDI Clock byte, and after a tick queued at time T the deadline is
\* strictly greater than T.
C7_TickCheckTwice ==
    LET st == [tx |-> midi_tx, last |-> time_of_last_clock,
               deadline |-> time_to_send_next_clock,
               interval |-> time_interval_between_ticks]
        once == TickCheck(st, now)
        twice == TickCheck(once, now)
    IN /\ Len(twice.tx) <= Len(st.tx) + 1
       /\ Len(once.tx) > Len(st.tx) => ULt(now, once.deadline)

\* C7 witness: the main loop is at its tick check and a tick is due.
C7_Witness ==
    pc = "tick" /\ ClockDue(now, time_to_send_next_clock)

\* C8: a Prev or Next pedal event queues exactly two bytes, 0xCF followed by
\* the new song index, and no other byte, whatever the values of play and
\* pause.
C8_NavQueuesTwoBytes ==
    [][(EdgeDispatch /\ pedal.value \in {PREV, NEXT})
       => midi_tx' = midi_tx \o <<MIDI_PRG_CHANGE, song'>>]_vars

\* C9: a Next pedal event sets song to (song + 1) mod 32 and a Prev pedal
\* event sets it to (song + 31) mod 32.
C9_NextPrevWrap ==
    [][/\ (EdgeDispatch /\ pedal.value = NEXT) => song' = (song + 1) % 32
       /\ (EdgeDispatch /\ pedal.value = PREV) => song' = (song + 31) % 32]_vars

\* C9 witness: Next has taken song from 31 (set by an inbound Program
\* Change) to 0.
C9_Witness ==
    /\ AfterEdge /\ pedal.value = NEXT
    /\ midi_rx[2] = LAST_SONG
    /\ song = 0

\* C10: a Play pedal event when neither playing nor paused queues Start and
\* sets play; a Play pedal event when playing or paused queues Stop and
\* leaves play and pause both false.
C10_PlayToggles ==
    [][(EdgeDispatch /\ pedal.value = PLAY)
       => IF play \/ pause
          THEN /\ midi_tx' = Append(midi_tx, MIDI_STOP)
               /\ ~play' /\ ~pause'
          ELSE /\ midi_tx' = Append(midi_tx, MIDI_PLAY)
               /\ play' /\ ~pause']_vars

\* C10 witness: the second of two Play presses has queued Stop and left both
\* flags false.
C10_Witness ==
    /\ AfterEdge /\ pedal.value = PLAY
    /\ windows = 3
    /\ midi_tx = <<MIDI_STOP>>
    /\ ~play /\ ~pause

\* a step that is the pedal dispatch of the first revision, device connected
DispatchStepA == pc = "a_ret" /\ site = "main" /\ pc' # "a_ret" /\ connected

\* C11: a Pause/Continue pedal event when neither playing nor paused emits
\* Continue (0xFB) and sets pause with play still false; when playing or
\* paused it emits Stop (0xFC) and leaves play and pause both false.  In the
\* latest revision the byte is queued in midi_tx; in the first revision,
\* which has no pause flag and no queue, it goes to the stream write.
C11_ContinueToggles ==
    [][/\ (EdgeDispatch /\ pedal.value = CONTINUE)
          => IF play \/ pause
             THEN /\ midi_tx' = Append(midi_tx, MIDI_STOP)
                  /\ ~play' /\ ~pause'
             ELSE /\ midi_tx' = Append(midi_tx, MIDI_CONTINUE)
                  /\ pause' /\ ~play'
       /\ (DispatchStepA /\ result = PAUSE)
          => IF play
             THEN stream' = Append(stream, MIDI_STOP) /\ ~play'
             ELSE stream' = Append(stream, MIDI_CONTINUE) /\ ~play']_vars

\* a step that is tuh_midi_rx_cb reading one buffer from the mounted device
\* on cable 0
RxStep ==
    /\ pc \in {"task", "a_task"} /\ pc' = pc
    /\ midi_dev_addr # 0 /\ midi_dev_addr' = midi_dev_addr
    /\ cable_num' = 0

\* C12: an inbound buffer [0xFA] sets play = true; an inbound buffer
\* [0xCF, v] sets song = v when v <= 31 and leaves song unchanged when v > 31.
C12_InboundStartAndProgramChange ==
    [][RxStep
       => /\ midi_rx'[1] = MIDI_PLAY => play'
          /\ midi_rx'[1] = MIDI_PRG_CHANGE
             => song' = (IF midi_rx'[2] <= 31 THEN midi_rx'[2] ELSE song)]_vars

\* C12 witness: after [0xFA] and [0xCF, 5], the buffer [0xCF, 40] has been
\* read and song is still 5.
C12_Witness ==
    /\ pc = "task"
    /\ midi_rx[1] = MIDI_PRG_CHANGE /\ midi_rx[2] = 40
    /\ song = 5 /\ play

\* C13: two consecutive taps whose beat period lies between 250,000 us
\* (240 BPM) and 1,500,000 us (40 BPM), both included, are accepted: the second
\* sets time_interval_between_ticks to the period div 24.
C13_BpmRangeAccepted ==
    [][(EdgeDispatch /\ Has(pedal.value, TEMPO) /\ taps[2] # NoTime
          /\ now - taps[2] >= 250000 /\ now - taps[2] <= 1500000)
       => time_interval_between_ticks' = (now - taps[2]) \div NB_TICKS]_vars

\* number of MIDI Clock bytes in a sequence of bytes
ClockCount(bytes) == Cardinality({k \in 1..Len(bytes) : bytes[k] = MIDI_CLOCK})

\* an auto-disable has reset the tap baseline and at most one TempoTap event
\* has followed it: either previous_press is still 0 after a tap, or the
\* last TempoTap event had an earlier one before it and was measured against
\* the baseline 0 (its quotient is its own time div 24)
AtMostOneTapSinceReset ==
    /\ taps[2] # NoTime
    /\ \/ previous_press = 0
       \/ /\ taps[1] # NoTime /\ previous_press = taps[2]
          /\ new_time_interval_between_ticks = taps[2] \div NB_TICKS

\* C14: after an auto-disable (deadline at the maximum value, previous_press
\* reset to 0) no MIDI Clock byte is queued until two further presses of the
\* tap pedal with a spacing in the acceptance window have occurred: with at
\* most one TempoTap event since the reset no Clock byte is queued, and the
\* deadline leaves the maximum value only at the dispatch of a press of the
\* tap pedal made after the previous TempoTap event, with the spacing of the
\* two in the window.  A single press does not resume emission.
C14_ResumeNeedsTwoPresses ==
    [][(time_to_send_next_clock = UINT64_MAX /\ AtMostOneTapSinceReset)
       => /\ ClockCount(midi_tx') <= ClockCount(midi_tx)
          /\ time_to_send_next_clock' # UINT64_MAX
             => /\ EdgeDispatch /\ Has(pedal.value, TEMPO)
                /\ previous_press # 0
                /\ tempo_down # NoTime /\ tempo_down > previous_press
                /\ (now - previous_press) \div NB_TICKS >= BPM240_TICKS
                /\ (now - previous_press) \div NB_TICKS <= BPM40_TICKS]_vars

\* C15: while connected is false a pedal event updates song, play, pause and
\* the tempo state as it does when connected, no byte is passed to the
\* stream write, and the queued bytes are discarded at the end of the pass
\* (index_tx back to 0), not kept for a later pass.
C15_DisconnectedDropsBytes ==
    [][~connected
       => /\ stream' = <<>>
          /\ pc = "tick" => midi_tx' = <<>>
          /\ (EdgeDispatch /\ pedal.value = PLAY)
             => /\ play' = ~(play \/ pause) /\ ~pause'
                /\ midi_tx' = Append(midi_tx, IF play \/ pause THEN MIDI_STOP
                                                                ELSE MIDI_PLAY)
          /\ (EdgeDispatch /\ pedal.value = NEXT)
             => /\ song' = (song + 1) % 32
                /\ midi_tx' = midi_tx \o <<MIDI_PRG_CHANGE, song', MIDI_STOP>>
                                      \o (IF play \/ pause THEN <<MIDI_PLAY>> ELSE <<>>)
          /\ (EdgeDispatch /\ pedal.value = TEMPO)
             => LET q == (now - previous_press) \div NB_TICKS
                IN /\ previous_press' = now
                   /\ time_interval_between_ticks' =
                          IF q >= BPM240_TICKS /\ q <= BPM40_TICKS
                          THEN q ELSE time_interval_between_ticks]_vars

\* C15 witness: a pass made with connected false in which a Play press
\* queued Start has ended: play is set, nothing was written, midi_tx is empty.
C15_Witness ==
    /\ pc = "task" /\ ~connected
    /\ pedal.change_state /\ pedal.value = PLAY
    /\ play
    /\ stream = <<>> /\ midi_tx = <<>>

\* s is the head of t
IsPrefix(s, t) == Len(s) <= Len(t) /\ SubSeq(t, 1, Len(s)) = s

\* C16: when the stream write accepts fewer bytes than requested the rest is
\* dropped: the end of the pass hands a head of midi_tx to the stream write,
\* empties midi_tx whatever was accepted, so that a later pass writes only
\* what it queued itself, and leaves song, play and pause as the dispatch
\* set them.
C16_ShortWriteDropsRest ==
    [][/\ pc = "tick"
          => /\ IsPrefix(stream', midi_tx)
             /\ midi_tx' = <<>>
             /\ UNCHANGED <<song, play, pause>>
       /\ pc' \in {"task", "poll"} => midi_tx' = <<>>]_vars

\* C16 witness: Next took song to 1 and queued [0xCF, 1, 0xFC]; the stream
\* write accepted two bytes, Stop was dropped, midi_tx is empty.
C16_Witness ==
    /\ pc = "task" /\ connected
    /\ pedal.change_state /\ pedal.value = NEXT
    /\ song = 1
    /\ stream = <<MIDI_PRG_CHANGE, 1>> /\ midi_tx = <<>>

\* C17: on a poll whose pressed mask equals the mask of the previous poll
\* no change is reported, and the pedal dispatch of a poll that reports no
\* change leaves song, play, pause, the interval and the deadline as they are
\* and queues no byte.
C17_NoEdgeNoDispatch ==
    [][/\ (pc = "poll" /\ result' = previous_result) => ~pedal'.change_state
       /\ (pc = "dispatch" /\ ~pedal.change_state)
          => UNCHANGED <<song, play, pause, time_interval_between_ticks,
                         time_to_send_next_clock, midi_tx>>]_vars

\* C17 witness: the tap pedal is still held on a poll made at a spacing that
\* a new press would have had accepted; the dispatch of that poll is over and
\* the clock is still off at the initial interval.
C17_Witness ==
    /\ pc = "tick" /\ ~pedal.change_state /\ pedal.value = TEMPO
    /\ previous_press # 0
    /\ (now - previous_press) \div NB_TICKS >= BPM240_TICKS
    /\ (now - previous_press) \div NB_TICKS <= BPM40_TICKS
    /\ time_interval_between_ticks = INITIAL_INTERVAL
    /\ time_to_send_next_clock = UINT64_MAX

\* C18: from startup until a second TempoTap event (no tap pair yet, accepted
\* or not) time_to_send_next_clock is the maximum 64-bit value and no MIDI
\* Clock byte is queued or handed to the stream write; and whenever the
\* deadline holds that value the tick check finds no tick due.
C18_ClockOffUntilTapPair ==
    /\ taps[1] = NoTime
       => /\ time_to_send_next_clock = UINT64_MAX
          /\ ClockCount(midi_tx) = 0
          /\ ClockCount(stream) = 0
    /\ time_to_send_next_clock = UINT64_MAX
       => ~ClockDue(now, time_to_send_next_clock)

\* a step that runs the tap-tempo branch: the dispatch of an edge with the
\* tap pedal down (latest revision), the dispatch of a poll with the tap
\* pedal down (earlier revision)
TapStep ==
    \/ EdgeDispatch /\ Has(pedal.value, TEMPO)
    \/ pc = "b_ret" /\ site = "main" /\ pc' # "b_ret" /\ Has(result, TEMPO)

\* C19: a TempoTap press whose derived interval (now - previous_press) div 24
\* lies outside [10417, 62500] leaves time_interval_between_ticks and
\* time_to_send_next_clock unchanged and becomes the baseline previous_press.
C19_RejectedTapKeepsClock ==
    [][(TapStep /\ ((now - previous_press) \div NB_TICKS < BPM240_TICKS
                    \/ (now - previous_press) \div NB_TICKS > BPM40_TICKS))
       => /\ time_interval_between_ticks' = time_interval_between_ticks
          /\ time_to_send_next_clock' = time_to_send_next_clock
          /\ previous_press' = now]_vars

\* C19 witness: with the clock running, a tap too close to the previous one
\* has been dispatched; the clock still runs at the old interval and the tap
\* is the new baseline.
C19_Witness ==
    /\ AfterEdge /\ pedal.value = TEMPO
    /\ new_time_interval_between_ticks < BPM240_TICKS
    /\ time_interval_between_ticks # INITIAL_INTERVAL
    /\ time_to_send_next_clock # UINT64_MAX
    /\ previous_press = now

\* C20: at startup time_interval_between_ticks is the 120-BPM equivalent,
\* one twenty-fourth of a beat of 500,000 us.
C20_StartupIntervalIs120Bpm ==
    (now = 0 /\ windows = 0 /\ pc \in {"task", "b_task"})
        => time_interval_between_ticks = 500000 \div NB_TICKS

\* C21: song is in 0..31 in every reachable state, after any sequence of
\* Next and Prev pedal events and of inbound buffers of arbitrary bytes.
C21_SongInRange == song \in 0..LAST_SONG

\* C21 witness: Prev has wrapped song from 0 to 31 and an inbound Program
\* Change for song 32 has been read and refused.
C21_Witness ==
    /\ pc = "task"
    /\ midi_rx[1] = MIDI_PRG_CHANGE /\ midi_rx[2] = LAST_SONG + 1
    /\ song = LAST_SONG

\* a step that runs the tap-tempo branch for the tap pedal alone
TempoOnlyStep ==
    \/ EdgeDispatch /\ pedal.value = TEMPO
    \/ pc = "b_ret" /\ site = "main" /\ pc' # "b_ret" /\ result = TEMPO

\* the press dispatched by the step is validated by the test of the boundaries
TapAccepted ==
    /\ (now - previous_press) \div NB_TICKS >= BPM240_TICKS
    /\ (now - previous_press) \div NB_TICKS <= BPM40_TICKS

\* C22 as claimed: a TempoTap event queues bytes only when the tap is
\* accepted and play or pause is set, and then exactly Stop, Continue; it
\* leaves play, pause and song unchanged.
C22_TapQueuesOnlyWhenPlaying ==
    [][TempoOnlyStep
       => /\ midi_tx' = midi_tx \o (IF TapAccepted /\ (play \/ pause)
                                    THEN <<MIDI_STOP, MIDI_CONTINUE>> ELSE <<>>)
          /\ UNCHANGED <<play, pause, song>>]_vars

\* C22 amended: a TempoTap event queues bytes only when the tap is accepted:
\* Stop, followed by Continue when play or pause is set; it leaves play,
\* pause and song unchanged.
C22_TapQueuesStopThenContinue ==
    [][TempoOnlyStep
       => /\ midi_tx' = midi_tx \o (IF TapAccepted THEN <<MIDI_STOP>> ELSE <<>>)
                                \o (IF TapAccepted /\ (play \/ pause)
                                    THEN <<MIDI_CONTINUE>> ELSE <<>>)
          /\ UNCHANGED <<play, pause, song>>]_vars

\* C22 witness: a tap accepted while playing has queued Stop, Continue and
\* play is still set.
C22_Witness ==
    /\ AfterEdge /\ pedal.value = TEMPO
    /\ play /\ ~pause
    /\ time_interval_between_ticks = new_time_interval_between_ticks
    /\ midi_tx = <<MIDI_STOP, MIDI_CONTINUE>>

\* C23: the end of every main-loop pass hands the bytes queued during the
\* pass (and the Clock byte of its own tick check) to the stream write when
\* connected, empties midi_tx in every case, and so every pass starts with
\* midi_tx empty.
C23_PassEndsWithEmptyQueue ==
    [][/\ pc \in {"tick", "b_tick"}
          => /\ midi_tx' = <<>>
             /\ connected => \E tail \in {<<>>, <<MIDI_CLOCK>>} :
                                 stream' = stream \o midi_tx \o tail
       /\ pc' \in {"task", "poll", "b_task", "b_call"} /\ site' = "main"
          => midi_tx' = <<>>]_vars

\* C23 witness: a pass that queued Clock bytes in its anti-bounce window and
\* Stop at the dispatch of an accepted tap has ended: all of them went to the
\* stream write and midi_tx is empty.
C23_Witness ==
    /\ pc = "task" /\ connected
    /\ midi_tx = <<>>
    /\ ClockCount(stream) >= 1
    /\ \E k \in 1..Len(stream) : stream[k] = MIDI_STOP

\* the tick check has acted in this step at the time the step ends: a due
\* deadline gave one Clock byte (dropped with the rest of the queue when the
\* pass ends with no device connected), stamped time_of_last_clock and moved
\* the deadline one interval on, a deadline not yet due left all three alone
TickChecked ==
    LET sent == pc = "bounce" \/ connected
    IN IF ClockDue(now', time_to_send_next_clock)
       THEN /\ time_of_last_clock' = now'
            /\ time_to_send_next_clock' = UAdd(now', time_interval_between_ticks)
            /\ sent => ClockCount(stream' \o midi_tx')
                           = ClockCount(stream \o midi_tx) + 1
       ELSE /\ time_of_last_clock' = time_of_last_clock
            /\ time_to_send_next_clock' = time_to_send_next_clock
            /\ sent => ClockCount(stream' \o midi_tx')
                           = ClockCount(stream \o midi_tx)

\* C24: the tick check runs in every main-loop pass, with or without a pedal
\* edge (a pass ends only through the step that runs it), and once in each
\* of the 30 one-millisecond slices of every anti-bounce window.
C24_TickCheckEveryPassAndSlice ==
    [][/\ pc = "tick" => TickChecked
       /\ pc # "task" /\ pc' = "task" => pc = "tick"
       /\ pc = "bounce" /\ pc' = "bounce" => i' = i + 1 /\ TickChecked
       /\ pc = "bounce" /\ pc' = "dispatch" => i = BOUNCE_SLICES]_vars

\* C24 witness: a Clock byte came due and was queued in a slice inside an
\* anti-bounce window.
C24_Witness ==
    /\ pc = "bounce" /\ i \in 1..BOUNCE_SLICES
    /\ time_of_last_clock = now
    /\ midi_tx # <<>> /\ midi_tx[Len(midi_tx)] = MIDI_CLOCK

\* a Clock byte is queued in this step: send_clock alone stamps
\* time_of_last_clock
ClockQueued == time_of_last_clock' # time_of_last_clock

\* C25: a Clock byte queued at time T leaves the deadline at T + interval,
\* and when no TempoTap event came after the previous Clock byte (the
\* interval is the one that byte was queued under) the two bytes are at
\* least one interval apart.
C25_ClocksOneIntervalApart ==
    [][ClockQueued
       => /\ time_of_last_clock' = now'
          /\ time_to_send_next_clock'
                 = UAdd(time_of_last_clock', time_interval_between_ticks')
          /\ time_of_last_clock # 0 /\ taps[2] < time_of_last_clock
             => ~ULt(time_of_last_clock',
                     UAdd(time_of_last_clock, time_interval_between_ticks))]_vars

\* C25 witness: two Clock bytes have been queued in one anti-bounce window
\* with no tap between them, and the deadline stands one interval after the
\* second.
C25_Witness ==
    /\ pc = "bounce"
    /\ ClockCount(midi_tx) >= 2
    /\ taps[2] < time_of_last_clock
    /\ time_to_send_next_clock
           = UAdd(time_of_last_clock, time_interval_between_ticks)

\* the last TempoTap event was accepted: new_time_interval_between_ticks is
\* written by the Tempo branch alone and holds what that event derived
LastTapAccepted ==
    /\ taps[2] # NoTime
    /\ InWindow(new_time_interval_between_ticks)

\* C26: an accepted tap dispatched at time t makes the derived interval the
\* interval and leaves the deadline at t + that interval, whatever it was
\* before (UINT64_MAX included), queueing no Clock byte itself; the first
\* Clock byte queued after it comes no earlier than t + that interval.
C26_TapRestartsDeadline ==
    [][/\ TapStep /\ TapAccepted
          => /\ time_interval_between_ticks' = (now - previous_press) \div NB_TICKS
             /\ time_to_send_next_clock' = now + time_interval_between_ticks'
             /\ time_to_send_next_clock' # UINT64_MAX
             /\ ~ClockQueued
       /\ ClockQueued /\ LastTapAccepted /\ time_of_last_clock <= taps[2]
          => time_of_last_clock' >= taps[2] + time_interval_between_ticks]_vars

\* C26 witness: the second of two taps was accepted, and a Clock byte has
\* been queued after it, at or after the tap's time plus the new interval.
C26_Witness ==
    /\ LastTapAccepted
    /\ taps[1] # NoTime /\ taps[1] < taps[2]
    /\ time_interval_between_ticks = new_time_interval_between_ticks
    /\ time_of_last_clock >= taps[2] + time_interval_between_ticks
    /\ time_to_send_next_clock = time_of_last_clock + time_interval_between_ticks

\* the step of the scan index after byte b: 3 after 0x80..0xBF and
\* 0xE0..0xEF, 2 after 0xC0..0xDF, 1 after any other byte
ScanStep(b) ==
    IF b \in 128..191 \/ b \in 224..239 THEN 3
    ELSE IF b \in 192..223 THEN 2
    ELSE 1

\* the indices (from 0) a scan of the first n bytes of buffer stops at when
\* it advances by ScanStep
RECURSIVE Landed(_, _, _)
Landed(buffer, n, idx) ==
    IF idx < n
    THEN {idx} \cup Landed(buffer, n, idx + ScanStep(buffer[idx + 1]))
    ELSE {}

\* C27: the scan index advances by 3 after a byte of high nibble 0x8, 0x9,
\* 0xA, 0xB or 0xE, by 2 after high nibble 0xC or 0xD and by 1 after
\* 0xF0..0xFF and after every byte below 0x80, and the callback acts on the
\* bytes at the indices so reached only: a Start, Stop, Continue or Program
\* Change byte at any other index has no effect.
C27_ScanAdvance ==
    /\ \A b \in 0..255 : RxAdvance(b) = ScanStep(b)
    /\ [][RxStep /\ pc = "task"
          => LET at == Landed(midi_rx', bytes_read', 0)
                 hit(b) == \E k \in at : midi_rx'[k + 1] = b
             IN /\ ~hit(MIDI_PLAY) /\ ~hit(MIDI_STOP) => play' = play
                /\ ~hit(MIDI_CONTINUE) /\ ~hit(MIDI_STOP) => pause' = pause
                /\ ~hit(MIDI_PRG_CHANGE) => song' = song
                /\ hit(MIDI_PLAY) /\ ~hit(MIDI_STOP) => play'
                /\ \A k \in at : (/\ midi_rx'[k + 1] = MIDI_PRG_CHANGE
                                 /\ midi_rx'[k + 2] <= LAST_SONG
                                 /\ (\A j \in at : j <= k))
                                    => song' = midi_rx'[k + 2]]_vars

\* C27 witness: the buffer [0xCF, 0xFA, 0x90, 0xFA] has been scanned, the
\* index going 0, 2, 5, and neither Start byte has set play.
C27_Witness ==
    /\ bytes_read = 4
    /\ midi_rx[1] = MIDI_PRG_CHANGE /\ midi_rx[2] = MIDI_PLAY
    /\ midi_rx[3] = 144 /\ midi_rx[4] = MIDI_PLAY
    /\ ~play

\* the callback has read a buffer that ends with the one-byte message b,
\* alone or after another one-byte message
RxEndsWith(b) ==
    /\ RxStep /\ pc = "task"
    /\ \/ bytes_read' = 1 /\ midi_rx'[1] = b
       \/ bytes_read' = 2 /\ midi_rx'[1] \notin 128..239 /\ midi_rx'[2] = b

\* C28: an inbound Stop byte (0xFC) leaves play and pause false, an inbound
\* Continue byte (0xFB) leaves pause true and does not touch play; neither
\* changes song.
C28_InboundStopAndContinue ==
    [][/\ RxEndsWith(MIDI_STOP)
          => ~play' /\ ~pause' /\ song' = song
       /\ RxEndsWith(MIDI_CONTINUE)
          => pause' /\ song' = song /\ (bytes_read' = 1 => play' = play)]_vars

\* C28 witness: after a Program Change to song 31 and with play and pause
\* cleared, the buffer [0xFB, 0xFC] has been read: pause was set by Continue
\* and cleared again by Stop, and song is still 31.
C28_Witness ==
    /\ pc = "task"
    /\ bytes_read = 2
    /\ midi_rx[1] = MIDI_CONTINUE /\ midi_rx[2] = MIDI_STOP
    /\ ~play /\ ~pause /\ song = LAST_SONG

\* C30: the callback examines no byte at an index >= bytes_read: a buffer
\* whose last byte is 0xCF, with no data byte after it, leaves song
\* unchanged whatever the earlier buffers held.
C30_NoReadPastBytesRead ==
    [][(/\ RxStep /\ pc = "task"
        /\ bytes_read' - 1 \in Landed(midi_rx', bytes_read', 0)
        /\ midi_rx'[bytes_read'] = MIDI_PRG_CHANGE)
       => song' = song]_vars

\* C29: in every reachable state 0 <= index_tx <= MIDI_BUF_SIZE: no Clock or
\* event byte is written past the end of midi_tx, however long a pedal is
\* held down while clock emission is enabled.
C29_IndexTxInBuffer == 0 <= index_tx /\ index_tx <= MIDI_BUF_SIZE

\* the edge being dispatched found the tap pedal down, and the pedal was
\* already down at the poll before it: tempo_down is older than the edge
TapHeldAcrossEdge ==
    /\ EdgeDispatch /\ Has(pedal.value, TEMPO)
    /\ tempo_down # NoTime /\ tempo_down < sw_previous_press

\* C31: a pedal's action is dispatched once per press of that pedal: when a
\* second pedal is pressed or released while the tap pedal stays down, the
\* tap-tempo branch does not run again (no new tap time, no new interval, no
\* new deadline, no byte queued by it).
C31_OneDispatchPerPress ==
    [][TapHeldAcrossEdge
       => /\ previous_press' = previous_press
          /\ new_time_interval_between_ticks' = new_time_interval_between_ticks
          /\ time_interval_between_ticks' = time_interval_between_ticks
          /\ time_to_send_next_clock' = time_to_send_next_clock]_vars

\* C32: clock emission is disabled, and the tap baseline reset, only by a
\* hold of the tap pedal: a step that turns the deadline to UINT64_MAX or
\* previous_press to 0 dispatches an edge the tap pedal was down before, and
\* a release of another pedal after 2 s or more, with the tap pedal never
\* pressed, leaves both unchanged.
C32_OnlyTapHoldDisables ==
    [][/\ (\/ time_to_send_next_clock # UINT64_MAX
              /\ time_to_send_next_clock' = UINT64_MAX
           \/ previous_press # 0 /\ previous_press' = 0)
          => tempo_down # NoTime
       /\ (EdgeDispatch /\ pedal.value = 0 /\ taps[2] = NoTime
              /\ pedal.change_time >= EXIT_FUNCTION)
          => /\ time_to_send_next_clock' = time_to_send_next_clock
             /\ previous_press' = previous_press]_vars

\* C33: with emission enabled Clock bytes keep being handed to the stream
\* write, also while a pedal is held down: a Clock byte queued in midi_tx is
\* sent before one anti-bounce window has gone by since it was queued (the
\* queued bytes are at least BPM240_TICKS apart, so the oldest has waited
\* at least the time below).
C33_ClocksHandedWhileHeld ==
    ClockCount(midi_tx) >= 1
    => now - time_of_last_clock + (ClockCount(midi_tx) - 1) * BPM240_TICKS
       <= BOUNCE_SLICES * SliceUs

\* a Clock byte is queued by a slice of the anti-bounce window that the poll
\* at the very time of the last accepted tap's dispatch opened: every tick
\* check since the tap was one slice after the one before, and midi_tx
\* holds the Clock bytes queued since the tap
ClockInWindowAfterTap ==
    /\ pc = "bounce" /\ ClockQueued
    /\ LastTapAccepted /\ sw_previous_press = taps[2]
    /\ time_interval_between_ticks = new_time_interval_between_ticks

\* C34 as claimed: with a constant interval I lateness does not accumulate:
\* the k-th Clock byte after an accepted tap at time t is queued no later
\* than t + k*I plus one polling latency (one slice).
C34_LatenessDoesNotAccumulate ==
    [][ClockInWindowAfterTap
       => now' <= taps[2] + ClockCount(midi_tx') * time_interval_between_ticks
                  + SliceUs]_vars

\* C34, amended: every Clock byte is queued less than one polling latency
\* after its own deadline, and the next deadline is counted from the time
\* the byte was queued: the k-th Clock byte after an accepted tap at time t
\* is queued no later than t + k*(I + one polling latency).
C34_LatenessPerTick ==
    [][/\ (ClockQueued /\ ((pc = "bounce" /\ i >= 1) \/ (pc # "bounce" /\ slices > 0)))
          => now' - time_to_send_next_clock < SliceUs
       /\ ClockInWindowAfterTap
          => now' <= taps[2] + ClockCount(midi_tx')
                                   * (time_interval_between_ticks + SliceUs)]_vars

\* C34 witness: the second Clock byte after an accepted tap has been queued
\* in the window opened at the tap's time, more than two intervals plus one
\* slice after the tap.
C34_Witness ==
    /\ pc = "bounce"
    /\ LastTapAccepted /\ sw_previous_press = taps[2]
    /\ ClockCount(midi_tx) = 2 /\ time_of_last_clock = now
    /\ now > taps[2] + 2 * time_interval_between_ticks + SliceUs

\* runs with the tap pedal and Next: pedal masks, the pause that makes the
\* first tap accepted, and inbound buffers that select the last song and
\* start the transport
MaxNavWindows == 3
NavMasks == {0, NEXT, TEMPO, TEMPO + NEXT}
NavDts == {0, 220008}
NavRxBuffers == {<<207, 31>>, <<250>>}

NextNav ==
    \/ \E d \in NavDts : UsbTask(d, TRUE)
    \/ \E m \in NavMasks : TestSwitch(m, MaxNavWindows)
    \/ BounceSlice
    \/ BounceDone
    \/ Dispatch
    \/ TickFlush(TRUE, 0)
    \/ MountCb(1)
    \/ \E buf \in NavRxBuffers : RxCb(1, 1, 0, buf)

SpecNav == Init /\ [][NextNav]_vars

\* the bytes the firmware sends: Clock, Start, Continue, Stop, Program Change
StatusBytes == {MIDI_CLOCK, MIDI_PLAY, MIDI_CONTINUE, MIDI_STOP, MIDI_PRG_CHANGE}

\* buf holds status bytes and song indexes only, every song index right
\* after a Program Change and every Program Change right before its index
WellFormedTx(buf) ==
    \A k \in 1..Len(buf) :
        /\ buf[k] \in StatusBytes \cup 0..LAST_SONG
        /\ buf[k] \in 0..LAST_SONG => (k > 1 /\ buf[k - 1] = MIDI_PRG_CHANGE)
        /\ buf[k] = MIDI_PRG_CHANGE => (k < Len(buf) /\ buf[k + 1] \in 0..LAST_SONG)

\* the buffer the end of the pass hands to send_midi: midi_tx after the tick
\* check
HandedTx ==
    TickCheck([tx |-> midi_tx, last |-> time_of_last_clock,
               deadline |-> time_to_send_next_clock,
               interval |-> time_interval_between_ticks], now).tx

\* C36: every byte queued in midi_tx, and every byte of the buffer handed to
\* the stream write at the end of a pass, is 0xF8, 0xFA, 0xFB, 0xFC, 0xCF or a
\* song index in 0..31 that comes right after a 0xCF, and every 0xCF is
\* followed at once by its song index: no Clock byte stands between the two.
\* The bytes the stream write has accepted are such bytes too.
C36_TransmittedBytes ==
    /\ WellFormedTx(midi_tx)
    /\ pc = "tick" => WellFormedTx(HandedTx)
    /\ \A k \in 1..Len(stream) :
          /\ stream[k] \in StatusBytes \cup 0..LAST_SONG
          /\ stream[k] \in 0..LAST_SONG
             => (k > 1 /\ stream[k - 1] = MIDI_PRG_CHANGE)

\* Clock bytes queued in the anti-bounce window of a Next press, followed by
\* the Program Change of that press and its song index, have been handed to
\* the stream write
C36_Witness ==
    /\ pc = "task"
    /\ \E k \in 2..(Len(stream) - 1) :
          /\ stream[k - 1] = MIDI_CLOCK
          /\ stream[k] = MIDI_PRG_CHANGE
          /\ stream[k + 1] \in 1..LAST_SONG

\* runs with several pedals pressed in one edge: Next with Prev, Play with
\* Pause, all five pedals; inbound Start and Program Change to the last song
ALL_PEDALS == PREV + NEXT + PLAY + CONTINUE + TEMPO
ChordMasks == {0, NEXT + PREV, PLAY + CONTINUE, ALL_PEDALS}

NextChord ==
    \/ \E d \in NavDts : UsbTask(d, TRUE)
    \/ \E m \in ChordMasks : TestSwitch(m, MaxNavWindows)
    \/ BounceSlice
    \/ BounceDone
    \/ Dispatch
    \/ TickFlush(TRUE, 0)
    \/ MountCb(1)
    \/ \E buf \in NavRxBuffers : RxCb(1, 1, 0, buf)

SpecChord == Init /\ [][NextChord]_vars

\* C37: an edge that reports several pedals runs all their branches in that
\* pass, in the order Next, Prev, Play, Pause, TempoTap.  Next with Prev
\* leaves song (and the flags) unchanged and queues one Program Change with
\* that song, then Stop, then Start when playing or paused.  Play with Pause
\* from idle queues Start then Stop and ends with both flags false; when
\* playing or paused it queues Stop then Continue and ends paused.  All five
\* pedals from idle queue Program Change, song, Stop, Start, Stop and, when
\* the tap is accepted, the Stop of the tap branch, in that order.
C37_ChordRunsBranchesInOrder ==
    [][/\ (EdgeDispatch /\ pedal.value = NEXT + PREV)
          => /\ song' = song /\ play' = play /\ pause' = pause
             /\ midi_tx' = midi_tx \o <<MIDI_PRG_CHANGE, song, MIDI_STOP>>
                           \o (IF play \/ pause THEN <<MIDI_PLAY>> ELSE <<>>)
       /\ (EdgeDispatch /\ pedal.value = PLAY + CONTINUE)
          => IF play \/ pause
             THEN /\ midi_tx' = midi_tx \o <<MIDI_STOP, MIDI_CONTINUE>>
                  /\ ~play' /\ pause'
             ELSE /\ midi_tx' = midi_tx \o <<MIDI_PLAY, MIDI_STOP>>
                  /\ ~play' /\ ~pause'
       /\ (EdgeDispatch /\ pedal.value = ALL_PEDALS)
          => /\ song' = song
             /\ previous_press' = now
             /\ IF play \/ pause
                THEN /\ midi_tx' = midi_tx
                          \o <<MIDI_PRG_CHANGE, song, MIDI_STOP, MIDI_PLAY,
                               MIDI_STOP, MIDI_CONTINUE>>
                          \o (IF TapAccepted
                              THEN <<MIDI_STOP, MIDI_CONTINUE>> ELSE <<>>)
                     /\ ~play' /\ pause'
                ELSE /\ midi_tx' = midi_tx
                          \o <<MIDI_PRG_CHANGE, song, MIDI_STOP, MIDI_PLAY,
                               MIDI_STOP>>
                          \o (IF TapAccepted THEN <<MIDI_STOP>> ELSE <<>>)
                     /\ ~play' /\ ~pause']_vars

\* all five pedals pressed in one edge, from idle and with song 31 set by an
\* inbound Program Change: song is kept, the queue holds Program Change, 31,
\* Stop, then Start and Stop, then the Stop of the accepted tap
C37_Witness ==
    /\ AfterEdge /\ pedal.value = ALL_PEDALS
    /\ song = LAST_SONG
    /\ midi_tx = <<MIDI_PRG_CHANGE, LAST_SONG, MIDI_STOP, MIDI_PLAY, MIDI_STOP,
                   MIDI_STOP>>
    /\ ~play /\ ~pause

\* C38: in every reachable state time_interval_between_ticks lies in
\* [BPM240_TICKS, BPM40_TICKS] = [10417, 62500], and is therefore strictly
\* positive.
C38_IntervalInBounds ==
    /\ time_interval_between_ticks >= BPM240_TICKS
    /\ time_interval_between_ticks <= BPM40_TICKS
    /\ time_interval_between_ticks > 0

\* a tap pair 1,500,023 us apart has been accepted and has set the interval
\* to the upper boundary
C38_Witness ==
    /\ AfterEdge /\ Has(pedal.value, TEMPO)
    /\ taps[1] # NoTime /\ (taps[2] - taps[1]) \div NB_TICKS = BPM40_TICKS
    /\ time_interval_between_ticks = BPM40_TICKS

\* inbound runs with Program Changes on several channels: two song indexes,
\* Program Change on channels 1, 15 and 16 (0xC0, 0xCE, 0xCF), Start
ChanBytes == {5, 9, 192, 206, 207, 250}
ChanBuffers == [1..1 -> ChanBytes] \cup [1..2 -> ChanBytes]

NextChan ==
    \/ MountCb(1)
    \/ \E c \in Cables : \E buf \in ChanBuffers : RxCb(1, 1, c, buf)

SpecChan == Init /\ [][NextChan]_vars

\* the bytes the first switch of tuh_midi_rx_cb has a case for
RxCases == {MIDI_CONTINUE, MIDI_PLAY, MIDI_STOP, MIDI_PRG_CHANGE}

\* C39: only status byte 0xCF changes song.  The first switch of the
\* interpreter leaves song, play and pause as they are for every byte value
\* other than 0xFA, 0xFB, 0xFC and 0xCF, whatever byte follows it; an inbound
\* buffer made of a Program Change on another channel (0xC0..0xCE) and any
\* data byte, and an inbound buffer without any of the four bytes, leave
\* song, play and pause unchanged.
C39_OnlyChannel16SelectsSong ==
    /\ \A b \in (0..255) \ RxCases : \A d \in 0..255 :
          \A st \in [song : {0, 9}, play : BOOLEAN, pause : BOOLEAN] :
              RxInterpret(st, <<b, d>>, 0) = st
    /\ [][/\ (RxStep /\ bytes_read' = 2
               /\ midi_rx'[1] \in 192..206)
             => UNCHANGED <<song, play, pause>>
          /\ (RxStep /\ bytes_read' >= 1
               /\ \A k \in 1..bytes_read' : midi_rx'[k] \notin RxCases)
             => UNCHANGED <<song, play, pause>>]_vars

\* with song 5 selected and the transport started, the buffer [0xCE, 9] has
\* been interpreted and song is still 5
C39_Witness ==
    /\ bytes_read = 2 /\ midi_rx[1] = 206 /\ midi_rx[2] = 9
    /\ song = 5 /\ play /\ ~pause

\* runs with two devices on the bus: each is mounted and unmounted, and
\* inbound buffers are reported for each
DevAddrs == {1, 2}
DevRxBuffers == RxBuffers \cup {<<207, 31>>}

NextDevices ==
    \/ \E a \in DevAddrs : MountCb(a)
    \/ \E a \in DevAddrs : UmountCb(a)
    \/ \E a \in DevAddrs : \E n \in PacketCounts : \E c \in Cables :
          \E buf \in DevRxBuffers : RxCb(a, n, c, buf)

SpecDevices == Init /\ [][NextDevices]_vars

\* C40: midi_dev_addr keeps the address of the first mounted device until
\* that device is unmounted.  A mount registers its address when none is
\* registered and changes nothing otherwise; an unmount of the registered
\* address resets midi_dev_addr to 0 and an unmount of another address
\* changes nothing; no step replaces a registered address by another one;
\* inbound data reported for an address that is not the registered one
\* changes no state.
C40_FirstMountedDeviceKept ==
    [][/\ (midi_dev_addr # 0 /\ midi_dev_addr' # midi_dev_addr)
          => midi_dev_addr' = 0
       /\ \A a \in DevAddrs :
             /\ MountCb(a)
                => midi_dev_addr' = (IF midi_dev_addr = 0 THEN a ELSE midi_dev_addr)
             /\ UmountCb(a)
                => midi_dev_addr' = (IF a = midi_dev_addr THEN 0 ELSE midi_dev_addr)
             /\ \A n \in PacketCounts : \A c \in Cables : \A buf \in DevRxBuffers :
                   (RxCb(a, n, c, buf) /\ a # midi_dev_addr) => UNCHANGED vars
       /\ (midi_rx' # midi_rx \/ bytes_read' # bytes_read
           \/ transportVars' # transportVars)
          => (midi_dev_addr # 0 /\ midi_dev_addr' = midi_dev_addr)]_vars

\* device 2 is the registered one: a Program Change has selected song 5 and
\* the Start that device 2 sent afterwards has been interpreted
C40_Witness ==
    /\ midi_dev_addr = 2
    /\ song = 5
    /\ bytes_read = 1 /\ midi_rx[1] = MIDI_PLAY /\ midi_rx[2] = 5
    /\ play

====
